---- MODULE Spec2Model ----
(***************************************************************************)
(* Model of the CTA vehicle-tracking aggregation layer (backend/service.go) *)
(* CTAService: GetRoutes, GetVehicles, GetAllVehicles, GetRouteStats, the   *)
(* error classifier isNoDataError and the direction classifier              *)
(* isNorthOrEastbound.                                                      *)
(*                                                                          *)
(* Go strings are modelled as sequences of one-character strings, so that   *)
(* strconv.Atoi, strings.ToLower, strings.Contains and strings.Join are     *)
(* computed character by character.                                         *)
(***************************************************************************)
EXTENDS Integers, Sequences, FiniteSets, TLC

VARIABLES
    op,              \* the inbound operation of this request ("idle" before it starts)
    pc,              \* position of the request inside the operation
    ctxCancelled,    \* the caller's context has been cancelled
    upstreamRoutes,  \* the route list the upstream provider currently publishes
    upstreamChanges, \* number of times the upstream list changed during the request
    trackerMode,     \* s.tracker: "nil", "ok" (inserts succeed) or "fail" (inserts fail)
    apiKey,          \* s.apiKey; "" while no service has been built
    tracked,         \* rows inserted by TrackCall (sequence of endpoint names)
    statsRoutes,     \* GetRouteStats: routes (its own GetRoutes result)
    routeIDs,        \* GetAllVehicles: routeIDs
    i,               \* GetAllVehicles: loop index i
    allVehicles,     \* GetAllVehicles: allVehicles
    reqRoutes,       \* GetVehicles: the routes argument of the current call
    sent,            \* upstream requests issued by this request, in order
    vehCall,         \* the current or last GetVehicles call: what client.Do and the
                     \* decoder yielded, the returned pair, isNoDataError evaluations
    calls,           \* the upstream calls that have returned: endpoint and returned pair
    result,          \* the (value, error) pair returned to the caller
    routesCall,      \* the current or last GetRoutes call, as vehCall
    routeParam,      \* GetVehicleLocations: the raw 'rt' query parameter
    parked,          \* the other request running on the same CTAService, while the
                     \* variables above hold the request that takes the next step
    hIn, hOut,       \* isNorthOrEastbound: argument and returned bucket
    hStats,          \* the statistics of one route for one vehicle heading hIn
    ndIn, ndOut,     \* isNoDataError: argument and return value
    lessIn, lessOut, \* the less function of the sort: three route numbers, its results
    displayToggles,          \* MapPage: displayToggles
    activeRouteIds,          \* MapPage: activeRouteIds
    busRoutesData,           \* MapPage: busRoutesData ("null" or "data")
    isLoadingRouteShapes,    \* MapPage: isLoadingRouteShapes
    routeShapesError,        \* MapPage: routeShapesError ("null" or "error")
    routeShapesRequestId,    \* MapPage: routeShapesRequestId.current
    loads,                   \* MapPage: the loadRoutes calls in flight
    effectLoad               \* MapPage: the load whose AbortController the cleanup
                             \* of the last effect run holds (0: none)

serviceVars == <<op, pc, ctxCancelled, upstreamRoutes, upstreamChanges, trackerMode,
                 apiKey, tracked, statsRoutes, routeIDs, i, allVehicles, reqRoutes, sent,
                 vehCall, calls, result, routesCall, routeParam, parked>>
headingVars == <<hIn, hOut, hStats>>
noDataVars == <<ndIn, ndOut>>
lessVars == <<lessIn, lessOut>>
pageVars == <<displayToggles, activeRouteIds, busRoutesData, isLoadingRouteShapes,
              routeShapesError, routeShapesRequestId, loads, effectLoad>>
vars == <<serviceVars, headingVars, noDataVars, lessVars, pageVars>>

(***************************************************************************)
(* Strings                                                                 *)
(***************************************************************************)

\* The characters of the model in byte (ASCII) order; Go compares strings bytewise.
Alphabet ==
    << " ", "+", ",", "-", ".",
       "0", "1", "2", "3", "4", "5", "6", "7", "8", "9",
       "A", "B", "C", "D", "E", "F", "G", "H", "I", "J", "K", "L", "M",
       "N", "O", "P", "Q", "R", "S", "T", "U", "V", "W", "X", "Y", "Z",
       "a", "b", "c", "d", "e", "f", "g", "h", "i", "j", "k", "l", "m",
       "n", "o", "p", "q", "r", "s", "t", "u", "v", "w", "x", "y", "z" >>

Ord(c) == CHOOSE k \in 1..Len(Alphabet) : Alphabet[k] = c

Digits == <<"0", "1", "2", "3", "4", "5", "6", "7", "8", "9">>

IsDigit(c) == \E k \in 1..10 : Digits[k] = c

DigitVal(c) == (CHOOSE k \in 1..10 : Digits[k] = c) - 1

IsUpper(c) == Ord("A") <= Ord(c) /\ Ord(c) <= Ord("Z")

\* strings.ToLower, for the ASCII letters of the model.
ToLower(s) ==
    [k \in 1..Len(s) |->
        IF IsUpper(s[k]) THEN Alphabet[Ord(s[k]) + (Ord("a") - Ord("A"))] ELSE s[k]]

\* strings.Contains(s, substr)
Contains(s, substr) ==
    \E k \in 0..(Len(s) - Len(substr)) : SubSeq(s, k + 1, k + Len(substr)) = substr

\* Go's string comparison a < b (bytewise lexical).
RECURSIVE StrLess(_, _)
StrLess(a, b) ==
    IF b = <<>> THEN FALSE
    ELSE IF a = <<>> THEN TRUE
    ELSE IF Head(a) # Head(b) THEN Ord(Head(a)) < Ord(Head(b))
    ELSE StrLess(Tail(a), Tail(b))

\* strings.Join(elems, ",")
RECURSIVE Join(_)
Join(elems) ==
    IF elems = <<>> THEN <<>>
    ELSE IF Len(elems) = 1 THEN elems[1]
    ELSE elems[1] \o <<",">> \o Join(Tail(elems))

\* The unsigned decimal value of a non-empty digit string, as strconv accumulates it.
RECURSIVE DecimalValue(_, _)
DecimalValue(s, acc) ==
    IF s = <<>> THEN acc ELSE DecimalValue(Tail(s), acc * 10 + DigitVal(Head(s)))

\* strconv.Atoi: an optional sign followed by one or more decimal digits.
\* ok = FALSE stands for the returned *NumError (syntax).
Atoi(s) ==
    LET signed == s # <<>> /\ Head(s) \in {"+", "-"}
        body == IF signed THEN Tail(s) ELSE s
    IN  IF body = <<>> \/ \E k \in 1..Len(body) : ~IsDigit(body[k])
        THEN [ok |-> FALSE, val |-> 0]
        ELSE [ok |-> TRUE,
              val |-> IF signed /\ Head(s) = "-" THEN 0 - DecimalValue(body, 0)
                      ELSE DecimalValue(body, 0)]

\* Go's remainder operator a % n for n > 0: truncated division, the result has
\* the sign of a.
GoRem(a, n) == IF a >= 0 THEN a % n ELSE 0 - ((0 - a) % n)

(***************************************************************************)
(* Direction classifier                                                    *)
(***************************************************************************)

FullCircle == 360
NorthFrom == 316
EastTo == 135

\* isNorthOrEastbound with the lower bound of north taken exclusively.
isNorthOrEastbound_StrictNorth(heading) ==
    LET parsed == Atoi(heading)
        rem == GoRem(parsed.val, FullCircle)
        hdg == IF rem < 0 THEN rem + FullCircle ELSE rem
    IN  IF ~parsed.ok THEN FALSE
        ELSE hdg > NorthFrom \/ hdg <= EastTo

\* isNorthOrEastbound without the correction of a negative remainder.
isNorthOrEastbound_NoNegativeFix(heading) ==
    LET parsed == Atoi(heading)
        hdg == GoRem(parsed.val, FullCircle)
    IN  IF ~parsed.ok THEN FALSE
        ELSE hdg >= NorthFrom \/ hdg <= EastTo

\* isNorthOrEastbound defaulting to north/east when parsing fails.
isNorthOrEastbound_DefaultNorth(heading) ==
    LET parsed == Atoi(heading)
        rem == GoRem(parsed.val, FullCircle)
        hdg == IF rem < 0 THEN rem + FullCircle ELSE rem
    IN  IF ~parsed.ok THEN TRUE
        ELSE hdg >= NorthFrom \/ hdg <= EastTo

\* isNorthOrEastbound(heading): TRUE for north/east, FALSE for south/west.
isNorthOrEastbound(heading) ==
    LET parsed == Atoi(heading)
        rem == GoRem(parsed.val, FullCircle)
        hdg == IF rem < 0 THEN rem + FullCircle ELSE rem
    IN  IF ~parsed.ok THEN FALSE
        ELSE hdg >= NorthFrom \/ hdg <= EastTo

(***************************************************************************)
(* Error classifier                                                        *)
(***************************************************************************)

NoDataFound == <<"n","o"," ","d","a","t","a"," ","f","o","u","n","d">>
NoServiceScheduled ==
    <<"n","o"," ","s","e","r","v","i","c","e"," ","s","c","h","e","d","u","l","e","d">>

\* The test of one message inside isNoDataError's loop.
IsNoDataMsg(m) ==
    LET msg == ToLower(m)
    IN  Contains(msg, NoDataFound) \/ Contains(msg, NoServiceScheduled)

\* isNoDataError(ctaErrors): the loop returns true at the first matching message.
RECURSIVE isNoDataError(_)
isNoDataError(ctaErrors) ==
    IF ctaErrors = <<>> THEN FALSE
    ELSE IF IsNoDataMsg(Head(ctaErrors).Msg) THEN TRUE
    ELSE isNoDataError(Tail(ctaErrors))

(***************************************************************************)
(* Records                                                                 *)
(***************************************************************************)

\* newAPIError(status, message, payload); message is the fixed part of the
\* formatted text.  A nil payload is the record with present = FALSE.
NoPayload == [present |-> FALSE, Error |-> <<>>, Vehicles |-> <<>>, Routes |-> <<>>]

RoutesPayload(env) ==
    [present |-> TRUE, Error |-> env.Error, Vehicles |-> <<>>, Routes |-> env.Routes]

VehiclesPayload(env) ==
    [present |-> TRUE, Error |-> env.Error, Vehicles |-> env.Vehicles, Routes |-> <<>>]

newAPIError(status, message, payload) ==
    [status |-> status, message |-> message, payload |-> payload]

StatusBadRequest == 400
StatusBadGateway == 502

\* The nil error.
NilError == [status |-> 0, message |-> "", payload |-> NoPayload]

\* A Go (value, error) return pair; isNil tells a nil slice from an empty one.
Return(val, err) == [val |-> val, isNil |-> FALSE, err |-> err]
ReturnNil(err) == [val |-> <<>>, isNil |-> TRUE, err |-> err]
NoReturn == [val |-> <<>>, isNil |-> TRUE, err |-> [status |-> -1, message |-> "pending", payload |-> NoPayload]]

Failed(ret) == ret.err.status > 0
Succeeded(ret) == ret.err = NilError

\* route{RouteNumber, RouteName} built from ctaRoute{Rt, Rtnm}; the colour and
\* rtdd fields are copied the same way and read by no operation of the service.
ToRoute(r) == [RouteNumber |-> r.Rt, RouteName |-> r.Rtnm]

ToRoutes(rs) == [k \in 1..Len(rs) |-> ToRoute(rs[k])]

\* vehicle{VehicleID, Route, Heading} built from ctaVehicle{Vid, Rt, Hdg}; the
\* remaining fields are copied the same way and read by no operation.
ToVehicle(v) == [VehicleID |-> v.Vid, Route |-> v.Rt, Heading |-> v.Hdg]

ToVehicles(vs) == [k \in 1..Len(vs) |-> ToVehicle(vs[k])]

(***************************************************************************)
(* Upstream data the model draws from                                      *)
(***************************************************************************)

RECURSIVE NatToStr(_)
NatToStr(n) ==
    IF n < 10 THEN <<Digits[n + 1]>> ELSE NatToStr(n \div 10) \o <<Digits[(n % 10) + 1]>>

IntToStr(n) == IF n < 0 THEN <<"-">> \o NatToStr(0 - n) ELSE NatToStr(n)

MaxRoutes == 25
MasterLen == 29

\* The k-th route the upstream publishes: distinct numeric identifiers in an
\* order that is not sorted ("8", "15", "22", "29", "7", ...).
MasterRoute(k) == [Rt |-> NatToStr(((k * 7) % MasterLen) + 1), Rtnm |-> "Route"]

MasterPrefix(n) == [k \in 1..n |-> MasterRoute(k)]

\* Short lists with a repeated identifier, with identifiers that are not
\* numbers and with two spellings of one number.
SpecialRouteLists ==
    { << [Rt |-> <<"8">>, Rtnm |-> "Halsted"], [Rt |-> <<"8">>, Rtnm |-> "Halsted Express"] >>,
      << [Rt |-> <<"2","2">>, Rtnm |-> "Clark"], [Rt |-> <<"9">>, Rtnm |-> "Ashland"] >>,
      << [Rt |-> <<"9">>, Rtnm |-> "Ashland"], [Rt |-> <<"1","0">>, Rtnm |-> "Museum"],
         [Rt |-> <<"1","A">>, Rtnm |-> "Owl"] >>,
      << [Rt |-> <<"0","8">>, Rtnm |-> "Halsted"], [Rt |-> <<"8">>, Rtnm |-> "Halsted"],
         [Rt |-> <<"X","9">>, Rtnm |-> "Ashland Express"] >> }

RouteLists ==
    {MasterPrefix(n) : n \in 0..MaxRoutes} \cup SpecialRouteLists

MsgNoDataParam ==
    <<"N","o"," ","d","a","t","a"," ","f","o","u","n","d"," ","f","o","r"," ",
      "p","a","r","a","m","e","t","e","r">>
MsgNoService == NoServiceScheduled
MsgNoServiceUpper ==
    <<"N","O"," ","S","E","R","V","I","C","E"," ","S","C","H","E","D","U","L","E","D">>
MsgInvalidKey == <<"I","n","v","a","l","i","d"," ","A","P","I"," ","k","e","y">>
MsgNoData == <<"N","o"," ","d","a","t","a">>

Messages == {MsgNoDataParam, MsgNoService, MsgNoServiceUpper, MsgInvalidKey, MsgNoData}

CtaError(m) == [Msg |-> m]

MaxErrors == 3

RECURSIVE SeqsUpTo(_, _)
SeqsUpTo(S, n) ==
    IF n = 0 THEN {<<>>}
    ELSE LET shorter == SeqsUpTo(S, n - 1)
         IN  shorter \cup {Append(q, x) : q \in {r \in shorter : Len(r) = n - 1}, x \in S}

ErrorLists == SeqsUpTo({CtaError(m) : m \in Messages}, MaxErrors)

\* Upstream vehicles: north/east, south/west and malformed headings on route
\* "8", two on route "15" (one without a heading) and one on a route no list
\* publishes.
V90 == [Vid |-> "v90", Rt |-> <<"8">>, Hdg |-> <<"9","0">>]
V270 == [Vid |-> "v270", Rt |-> <<"8">>, Hdg |-> <<"2","7","0">>]
VBad == [Vid |-> "vBad", Rt |-> <<"8">>, Hdg |-> <<"N","E">>]
V15 == [Vid |-> "v15", Rt |-> <<"1","5">>, Hdg |-> <<"-","4","5">>]
VBlank == [Vid |-> "vBlank", Rt |-> <<"1","5">>, Hdg |-> <<>>]
VGone == [Vid |-> "vGone", Rt |-> <<"4","0","4">>, Hdg |-> <<"0">>]

\* The decoded bustime-response envelopes of getvehicles.
VehicleEnvelopes ==
    { [Vehicles |-> <<>>, Error |-> <<>>],
      [Vehicles |-> <<>>, Error |-> <<CtaError(MsgNoService)>>],
      [Vehicles |-> <<>>, Error |-> <<CtaError(MsgInvalidKey)>>],
      [Vehicles |-> <<>>, Error |-> <<CtaError(MsgInvalidKey), CtaError(MsgNoDataParam)>>],
      [Vehicles |-> <<V90>>, Error |-> <<>>],
      [Vehicles |-> <<V90, V270>>, Error |-> <<>>],
      [Vehicles |-> <<V270, VBad>>, Error |-> <<CtaError(MsgNoDataParam)>>],
      [Vehicles |-> <<V15, VGone, VBlank>>, Error |-> <<CtaError(MsgInvalidKey)>>] }

\* The decoded envelopes of getroutes, for the list the upstream publishes now.
RouteEnvelopes(published) ==
    { [Routes |-> published, Error |-> <<>>],
      [Routes |-> <<>>, Error |-> <<CtaError(MsgInvalidKey)>>],
      [Routes |-> published, Error |-> <<CtaError(MsgNoDataParam)>>] }

\* What client.Do and the decoder can yield for one request.
FailureKinds == {"transport", "status", "decode"}

Outcome(kind, env) == [kind |-> kind, env |-> env]

NoVehicleEnvelope == [Vehicles |-> <<>>, Error |-> <<>>]
NoRouteEnvelope == [Routes |-> <<>>, Error |-> <<>>]

\* No response yet.
NoOutcome == Outcome("none", NoVehicleEnvelope)

VehCall(o, ret, consulted) == [resp |-> o, ret |-> ret, consulted |-> consulted]

\* No getroutes response yet.
NoRouteOutcome == Outcome("none", NoRouteEnvelope)

RoutesCall(o, ret, consulted) == [resp |-> o, ret |-> ret, consulted |-> consulted]

VehicleOutcomes ==
    {Outcome(k, NoVehicleEnvelope) : k \in FailureKinds}
        \cup {Outcome("decoded", e) : e \in VehicleEnvelopes}

RouteOutcomes(published) ==
    {Outcome(k, NoRouteEnvelope) : k \in FailureKinds}
        \cup {Outcome("decoded", e) : e \in RouteEnvelopes(published)}

\* The routes arguments of a direct GetVehicles call.
RouteArgs == { <<>>, << <<"8">> >>, << <<"8">>, <<"1","5">> >> }

(***************************************************************************)
(* CTAService: the code between a response and the return                  *)
(***************************************************************************)

BatchSize == 10

GetRoutesURL == "getroutes"
GetVehiclesURL == "getvehicles"

\* The early error returns all carrying the message of the first.
TransportError_OneMessage(kind) ==
    newAPIError(StatusBadGateway, "CTA API request failed", NoPayload)

\* The three early error returns shared by GetRoutes and GetVehicles: client.Do
\* failed, the status is not 200, the body does not decode.
TransportError(kind) ==
    IF kind = "transport" THEN newAPIError(StatusBadGateway, "CTA API request failed", NoPayload)
    ELSE IF kind = "status" THEN newAPIError(StatusBadGateway, "CTA API returned status", NoPayload)
    ELSE newAPIError(StatusBadGateway, "failed to decode CTA API response", NoPayload)

\* GetRoutes putting its error array to isNoDataError as GetVehicles does.
GetRoutesBody_ToleratesNoData(o) ==
    IF o.kind # "decoded"
    THEN [ret |-> ReturnNil(TransportError(o.kind)), track |-> FALSE, consulted |-> 0]
    ELSE IF Len(o.env.Error) > 0 /\ ~isNoDataError(o.env.Error)
    THEN [ret |-> ReturnNil(newAPIError(StatusBadGateway, "CTA API returned error",
                                        RoutesPayload(o.env))),
          track |-> FALSE, consulted |-> 1]
    ELSE [ret |-> Return(ToRoutes(o.env.Routes), NilError), track |-> TRUE,
          consulted |-> IF Len(o.env.Error) > 0 THEN 1 ELSE 0]

\* GetRoutes from the outcome of client.Do on: ret is the returned pair, track
\* tells whether the tracker block is reached and consulted counts the calls
\* of isNoDataError.
GetRoutesBody(o) ==
    IF o.kind # "decoded"
    THEN [ret |-> ReturnNil(TransportError(o.kind)), track |-> FALSE, consulted |-> 0]
    ELSE IF Len(o.env.Error) > 0
    THEN [ret |-> ReturnNil(newAPIError(StatusBadGateway, "CTA API returned error",
                                        RoutesPayload(o.env))),
          track |-> FALSE, consulted |-> 0]
    ELSE [ret |-> Return(ToRoutes(o.env.Routes), NilError), track |-> TRUE,
          consulted |-> 0]

\* GetVehicles returning the empty list for every response without vehicles.
GetVehiclesBody_SwallowsErrors(o) ==
    IF o.kind # "decoded"
    THEN [ret |-> ReturnNil(TransportError(o.kind)), track |-> FALSE, consulted |-> 0]
    ELSE IF Len(o.env.Vehicles) = 0 /\ Len(o.env.Error) > 0
    THEN [ret |-> Return(<<>>, NilError), track |-> FALSE, consulted |-> 1]
    ELSE [ret |-> Return(ToVehicles(o.env.Vehicles), NilError), track |-> TRUE,
          consulted |-> 0]

\* GetVehicles looking at the error array whether or not vehicles came with it.
GetVehiclesBody_ErrorsFirst(o) ==
    IF o.kind # "decoded"
    THEN [ret |-> ReturnNil(TransportError(o.kind)), track |-> FALSE, consulted |-> 0]
    ELSE IF Len(o.env.Error) > 0
    THEN IF isNoDataError(o.env.Error)
         THEN [ret |-> Return(ToVehicles(o.env.Vehicles), NilError), track |-> FALSE,
               consulted |-> 1]
         ELSE [ret |-> ReturnNil(newAPIError(StatusBadGateway, "CTA API returned error",
                                             VehiclesPayload(o.env))),
               track |-> FALSE, consulted |-> 1]
    ELSE [ret |-> Return(ToVehicles(o.env.Vehicles), NilError), track |-> TRUE,
          consulted |-> 0]

\* GetVehicles from the outcome of client.Do on; consulted counts the calls of
\* isNoDataError.
GetVehiclesBody(o) ==
    IF o.kind # "decoded"
    THEN [ret |-> ReturnNil(TransportError(o.kind)), track |-> FALSE, consulted |-> 0]
    ELSE IF Len(o.env.Vehicles) = 0 /\ Len(o.env.Error) > 0
    THEN IF isNoDataError(o.env.Error)
         THEN [ret |-> Return(<<>>, NilError), track |-> FALSE, consulted |-> 1]
         ELSE [ret |-> ReturnNil(newAPIError(StatusBadGateway, "CTA API returned error",
                                             VehiclesPayload(o.env))),
               track |-> FALSE, consulted |-> 1]
    ELSE [ret |-> Return(ToVehicles(o.env.Vehicles), NilError), track |-> TRUE,
          consulted |-> 0]

\* GetVehicles' argument check.
NoRoutesError ==
    newAPIError(StatusBadRequest, "at least one route designator is required", NoPayload)

\* APICallTracker.TrackCall(endpoint) on the rows recorded so far.
TrackCall(rows, endpoint) ==
    IF trackerMode = "ok" THEN Append(rows, endpoint) ELSE rows

\* The "if s.tracker != nil { TrackCall }" block at the end of both fetches.
TrackerBlock(rows, endpoint) ==
    IF trackerMode # "nil" THEN TrackCall(rows, endpoint) ELSE rows

\* TrackCall returns an error.
TrackCallFails == trackerMode = "fail"

\* The end of both fetches returning the error of TrackCall to the caller.
ReturnAfterTracking_PropagatesTrackerError(ret) ==
    IF trackerMode # "nil" /\ TrackCallFails
    THEN ReturnNil(newAPIError(StatusBadGateway, "failed to track API call", NoPayload))
    ELSE ret

\* The end of both fetches: the error of TrackCall is logged and the fetched
\* value is returned with a nil error.
ReturnAfterTracking(ret) == ret

\* GetAllVehicles: routeIDs[i] = r.RouteNumber
RouteIDsOf(routes) == [k \in 1..Len(routes) |-> routes[k].RouteNumber]

Min(a, b) == IF a < b THEN a ELSE b

\* The batch cut one element short of the step of the loop.
BatchAt_OneShort(ids, from) == SubSeq(ids, from + 1, Min(from + BatchSize - 1, Len(ids)))

\* GetAllVehicles: batch := routeIDs[i:end] with end = min(i+batchSize, len)
BatchAt(ids, from) == SubSeq(ids, from + 1, Min(from + BatchSize, Len(ids)))

(***************************************************************************)
(* GetRouteStats: the join and the sort                                    *)
(***************************************************************************)

ZeroStats(r) ==
    [RouteNumber |-> r.RouteNumber, RouteName |-> r.RouteName,
     NorthEastbound |-> 0, SouthWestbound |-> 0, TotalActive |-> 0]

\* statsMap is kept as the sequence of its entries, one per key; the position
\* of the entry of a key, 0 when the key is absent.
EntryOf(m, key) ==
    IF \E k \in 1..Len(m) : m[k].RouteNumber = key
    THEN CHOOSE k \in 1..Len(m) : m[k].RouteNumber = key
    ELSE 0

\* statsMap after "for _, r := range routes": one entry per route number, a
\* later route with the same number replacing the earlier one.
RECURSIVE BuildStatsMap(_, _)
BuildStatsMap(routes, m) ==
    IF routes = <<>> THEN m
    ELSE LET r == Head(routes)
             at == EntryOf(m, r.RouteNumber)
         IN  BuildStatsMap(Tail(routes),
                 IF at = 0 THEN Append(m, ZeroStats(r))
                 ELSE [m EXCEPT ![at] = ZeroStats(r)])

\* The counting loop counting at most one vehicle per route.
CountVehicle_OncePerRoute(m, v) ==
    LET at == EntryOf(m, v.Route)
    IN  IF at = 0 \/ m[at].TotalActive > 0 THEN m
        ELSE LET stat == m[at]
                 counted ==
                     IF isNorthOrEastbound(v.Heading)
                     THEN [stat EXCEPT !.NorthEastbound = @ + 1]
                     ELSE [stat EXCEPT !.SouthWestbound = @ + 1]
             IN  [m EXCEPT ![at] = [counted EXCEPT !.TotalActive = @ + 1]]

\* The counting loop leaving a vehicle whose heading does not parse out of
\* both directional counts.
CountVehicle_UnparsedInTotalOnly(m, v) ==
    LET at == EntryOf(m, v.Route)
    IN  IF at = 0 THEN m
        ELSE LET stat == m[at]
                 counted ==
                     IF ~Atoi(v.Heading).ok THEN stat
                     ELSE IF isNorthOrEastbound(v.Heading)
                     THEN [stat EXCEPT !.NorthEastbound = @ + 1]
                     ELSE [stat EXCEPT !.SouthWestbound = @ + 1]
             IN  [m EXCEPT ![at] = [counted EXCEPT !.TotalActive = @ + 1]]

\* The counting loop opening a record for a route the route list lacks.
CountVehicle_AddsUnknown(m, v) ==
    LET at == EntryOf(m, v.Route)
        stat == IF at = 0
                THEN [RouteNumber |-> v.Route, RouteName |-> "",
                      NorthEastbound |-> 0, SouthWestbound |-> 0, TotalActive |-> 0]
                ELSE m[at]
        counted ==
            IF isNorthOrEastbound(v.Heading)
            THEN [stat EXCEPT !.NorthEastbound = @ + 1]
            ELSE [stat EXCEPT !.SouthWestbound = @ + 1]
        bumped == [counted EXCEPT !.TotalActive = @ + 1]
    IN  IF at = 0 THEN Append(m, bumped) ELSE [m EXCEPT ![at] = bumped]

\* One iteration of "for _, v := range vehicles".
CountVehicle(m, v) ==
    LET at == EntryOf(m, v.Route)
    IN  IF at = 0 THEN m
        ELSE LET stat == m[at]
                 counted ==
                     IF isNorthOrEastbound(v.Heading)
                     THEN [stat EXCEPT !.NorthEastbound = @ + 1]
                     ELSE [stat EXCEPT !.SouthWestbound = @ + 1]
             IN  [m EXCEPT ![at] = [counted EXCEPT !.TotalActive = @ + 1]]

RECURSIVE CountVehicles(_, _)
CountVehicles(m, vehicles) ==
    IF vehicles = <<>> THEN m
    ELSE CountVehicles(CountVehicle(m, Head(vehicles)), Tail(vehicles))

\* The less function handed to sort.Slice, on two route numbers.
RouteLess(a, b) ==
    LET numI == Atoi(a)
        numJ == Atoi(b)
    IN  IF numI.ok /\ numJ.ok THEN numI.val < numJ.val ELSE StrLess(a, b)

StatLess(x, y) == RouteLess(x.RouteNumber, y.RouteNumber)

\* sort's insertion sort (the algorithm sort.Slice runs on up to 12 elements):
\* element k is moved left while it is less than its left neighbour.
RECURSIVE SiftLeft(_, _)
SiftLeft(data, j) ==
    IF j > 1 /\ StatLess(data[j], data[j - 1])
    THEN SiftLeft([data EXCEPT ![j] = data[j - 1], ![j - 1] = data[j]], j - 1)
    ELSE data

RECURSIVE InsertionSortFrom(_, _)
InsertionSortFrom(data, k) ==
    IF k > Len(data) THEN data ELSE InsertionSortFrom(SiftLeft(data, k), k + 1)

InsertionSort(data) == InsertionSortFrom(data, 2)

\* The orders in which "for _, stat := range statsMap" can append the entries
\* to result: Go leaves the iteration order of a map unspecified.
RECURSIVE MapOrders(_)
MapOrders(S) ==
    IF S = {} THEN {<<>>}
    ELSE UNION {{<<x>> \o rest : rest \in MapOrders(S \ {x})} : x \in S}

\* The parsed route numbers of the entries, in the order of the entries.
RECURSIVE ParsedKeys(_)
ParsedKeys(m) ==
    IF m = <<>> THEN <<>> ELSE <<Atoi(Head(m).RouteNumber)>> \o ParsedKeys(Tail(m))

\* The less function is a strict total order on route numbers that are all
\* integers with pairwise different values; every sort then leaves the one
\* ascending sequence, whatever the order of the input.
NumericDistinct(parsed) ==
    /\ \A k \in 1..Len(parsed) : parsed[k].ok
    /\ \A j, k \in 1..Len(parsed) : j < k => parsed[j].val # parsed[k].val

\* The slices sort.Slice can leave in result, over the map iteration orders.
SortedSlices(m) ==
    IF NumericDistinct(ParsedKeys(m)) THEN {InsertionSort(m)}
    ELSE {InsertionSort(order) : order \in MapOrders({m[k] : k \in 1..Len(m)})}

\* GetRouteStats emitting only the routes that have an active vehicle.
RouteStatsResults_ActiveOnly(routes, vehicles) ==
    SortedSlices(SelectSeq(CountVehicles(BuildStatsMap(routes, <<>>), vehicles),
                           LAMBDA stat : stat.TotalActive > 0))

\* The values GetRouteStats can return for its route list and the vehicles.
RouteStatsResults(routes, vehicles) ==
    SortedSlices(CountVehicles(BuildStatsMap(routes, <<>>), vehicles))

(***************************************************************************)
(* The request: control flow of the four operations                        *)
(***************************************************************************)

MaxUpstreamChanges == 1

\* The locals of the running request.
Locals ==
    [pc |-> pc, statsRoutes |-> statsRoutes, routeIDs |-> routeIDs, i |-> i,
     allVehicles |-> allVehicles, reqRoutes |-> reqRoutes, result |-> result]

Install(l) ==
    /\ pc' = l.pc
    /\ statsRoutes' = l.statsRoutes
    /\ routeIDs' = l.routeIDs
    /\ i' = l.i
    /\ allVehicles' = l.allVehicles
    /\ reqRoutes' = l.reqRoutes
    /\ result' = l.result

Finish(l, ret) == [l EXCEPT !.pc = "done", !.result = ret]

\* GetRouteStats returning, next to the error, the statistics of the batches
\* fetched before the failure.
AfterGetAllVehicles_PartialStats(l, ret) ==
    IF op = "GetAllVehicles" THEN {Finish(l, ret)}
    ELSE IF Failed(ret)
    THEN {Finish(l, [val |-> stats, isNil |-> FALSE, err |-> ret.err]) :
              stats \in RouteStatsResults(l.statsRoutes, l.allVehicles)}
    ELSE {Finish(l, Return(stats, NilError)) :
              stats \in RouteStatsResults(l.statsRoutes, ret.val)}

\* GetAllVehicles has returned ret: to the caller, or into GetRouteStats, which
\* returns the error or builds, counts and sorts the statistics.
AfterGetAllVehicles(l, ret) ==
    IF op = "GetAllVehicles" THEN {Finish(l, ret)}
    ELSE IF Failed(ret) THEN {Finish(l, ReturnNil(ret.err))}
    ELSE {Finish(l, Return(stats, NilError)) :
              stats \in RouteStatsResults(l.statsRoutes, ret.val)}

\* The batch loop going on to the next batch after a failed one.
AfterGetVehicles_SkipsFailedBatch(l, ret) ==
    IF op = "GetVehicles" THEN {Finish(l, ret)}
    ELSE LET acc == IF Failed(ret) THEN l.allVehicles ELSE l.allVehicles \o ret.val
             next == l.i + BatchSize
             looped == [l EXCEPT !.allVehicles = acc, !.i = next]
         IN  IF next < Len(l.routeIDs)
             THEN {[looped EXCEPT !.reqRoutes = BatchAt(l.routeIDs, next),
                                  !.pc = "sendVehicles"]}
             ELSE AfterGetAllVehicles(looped, Return(acc, NilError))

\* GetVehicles has returned ret: to the caller, or into the batch loop of
\* GetAllVehicles, which returns the error or appends and moves to the next batch.
AfterGetVehicles(l, ret) ==
    IF op = "GetVehicles" THEN {Finish(l, ret)}
    ELSE IF Failed(ret) THEN AfterGetAllVehicles(l, ReturnNil(ret.err))
    ELSE LET acc == l.allVehicles \o ret.val
             next == l.i + BatchSize
             looped == [l EXCEPT !.allVehicles = acc, !.i = next]
         IN  IF next < Len(l.routeIDs)
             THEN {[looped EXCEPT !.reqRoutes = BatchAt(l.routeIDs, next),
                                  !.pc = "sendVehicles"]}
             ELSE AfterGetAllVehicles(looped, Return(acc, NilError))

\* GetAllVehicles running the loop body once before testing i < len(routeIDs).
AfterGetRoutes_AlwaysEntersLoop(l, ret) ==
    IF op = "GetRoutes" THEN {Finish(l, ret)}
    ELSE IF l.pc \in {"sendStatsRoutes", "awaitStatsRoutes"}
    THEN IF Failed(ret) THEN {Finish(l, ReturnNil(ret.err))}
         ELSE {[l EXCEPT !.statsRoutes = ret.val, !.pc = "sendRoutes"]}
    ELSE IF Failed(ret) THEN AfterGetAllVehicles(l, ReturnNil(ret.err))
    ELSE LET ids == RouteIDsOf(ret.val)
             entered == [l EXCEPT !.routeIDs = ids, !.i = 0, !.allVehicles = <<>>]
         IN  {[entered EXCEPT !.reqRoutes = BatchAt(ids, 0), !.pc = "sendVehicles"]}

\* GetRoutes has returned ret: to the caller, into GetRouteStats (its own
\* fetch), or into GetAllVehicles, which builds routeIDs and enters the loop.
AfterGetRoutes(l, ret) ==
    IF op = "GetRoutes" THEN {Finish(l, ret)}
    ELSE IF l.pc \in {"sendStatsRoutes", "awaitStatsRoutes"}
    THEN IF Failed(ret) THEN {Finish(l, ReturnNil(ret.err))}
         ELSE {[l EXCEPT !.statsRoutes = ret.val, !.pc = "sendRoutes"]}
    ELSE IF Failed(ret) THEN AfterGetAllVehicles(l, ReturnNil(ret.err))
    ELSE LET ids == RouteIDsOf(ret.val)
             entered == [l EXCEPT !.routeIDs = ids, !.i = 0, !.allVehicles = <<>>]
         IN  IF 0 < Len(ids)
             THEN {[entered EXCEPT !.reqRoutes = BatchAt(ids, 0), !.pc = "sendVehicles"]}
             ELSE AfterGetAllVehicles(entered, Return(<<>>, NilError))

\* The upstream publishes one more route or withdraws the last one.
ChangedLists(published) ==
    {Append(published, MasterRoute(Len(published) + 1))}
        \cup (IF published = <<>> THEN {} ELSE {SubSeq(published, 1, Len(published) - 1)})

pureVars == <<headingVars, noDataVars, lessVars, pageVars>>

\* The query of an upstream request: the endpoint, key=s.apiKey and, for
\* getvehicles, rt.
Request(url, rt) == [url |-> url, key |-> apiKey, rt |-> rt]

\* An upstream call that has returned to its caller: the endpoint, how
\* client.Do and the decoder ended, and the returned pair.
Call(url, kind, ret) == [url |-> url, kind |-> kind, ret |-> ret]

\* The values of CTA_API_KEY main can read.
Credentials == {"", "secret"}

\* NewCTAService accepting any credential.
NewCTAService_AcceptsEmptyKey(key) == [built |-> TRUE, apiKey |-> key]

\* NewCTAService(apiKey, client, logger, tracker): no service and an error for
\* the empty credential.
NewCTAService(key) ==
    IF key = "" THEN [built |-> FALSE, apiKey |-> ""]
    ELSE [built |-> TRUE, apiKey |-> key]

\* main: reads the credential and builds the service; Fatalf ends the process
\* when NewCTAService returns an error, before any route is registered.
Main ==
    /\ pc = "main"
    /\ \E key \in Credentials :
          LET service == NewCTAService(key)
          IN  /\ apiKey' = service.apiKey
              /\ pc' = IF service.built THEN "idle" ELSE "fatal"
    /\ UNCHANGED <<op, ctxCancelled, upstreamRoutes, upstreamChanges, trackerMode, tracked,
                   statsRoutes, routeIDs, i, allVehicles, reqRoutes, sent, vehCall, calls,
                   result, routesCall, routeParam, parked, pureVars>>

\* Handlers.GetRoutes -> CTAService.GetRoutes
CallGetRoutes ==
    /\ pc = "idle"
    /\ op' = "GetRoutes"
    /\ pc' = "sendRoutes"
    /\ UNCHANGED <<ctxCancelled, upstreamRoutes, upstreamChanges, trackerMode, apiKey, tracked,
                   statsRoutes, routeIDs, i, allVehicles, reqRoutes, sent, vehCall,
                   calls, result, routesCall, routeParam, parked, pureVars>>

\* CTAService.GetVehicles(ctx, routes) called with a route list as it is.
CallGetVehicles ==
    /\ pc = "idle"
    /\ \E routes \in RouteArgs : reqRoutes' = routes
    /\ op' = "GetVehicles"
    /\ pc' = "sendVehicles"
    /\ UNCHANGED <<ctxCancelled, upstreamRoutes, upstreamChanges, trackerMode, apiKey, tracked,
                   statsRoutes, routeIDs, i, allVehicles, sent, vehCall, calls,
                   result, routesCall, routeParam, parked, pureVars>>

\* handlers.go: maxRouteParams
maxRouteParams == 10

\* strings.TrimSpace (the space is the only white space of the alphabet)
RECURSIVE TrimLeft(_)
TrimLeft(s) == IF s # <<>> /\ Head(s) = " " THEN TrimLeft(Tail(s)) ELSE s

RECURSIVE TrimRight(_)
TrimRight(s) ==
    IF s # <<>> /\ s[Len(s)] = " " THEN TrimRight(SubSeq(s, 1, Len(s) - 1)) ELSE s

TrimSpace(s) == TrimRight(TrimLeft(s))

\* strings.Split(s, ","): the pieces between the commas, empty ones included.
RECURSIVE Split(_)
Split(s) ==
    IF \A k \in 1..Len(s) : s[k] # ","
    THEN <<s>>
    ELSE LET k == CHOOSE k \in 1..Len(s) :
                      s[k] = "," /\ \A j \in 1..(k - 1) : s[j] # ","
         IN  <<SubSeq(s, 1, k - 1)>> \o Split(SubSeq(s, k + 1, Len(s)))

\* The loop of GetVehicleLocations over the pieces: each is trimmed and the
\* blank ones are skipped.
RECURSIVE TrimmedIDs(_)
TrimmedIDs(parts) ==
    IF parts = <<>> THEN <<>>
    ELSE LET trimmed == TrimSpace(Head(parts))
         IN  IF trimmed = <<>> THEN TrimmedIDs(Tail(parts))
             ELSE <<trimmed>> \o TrimmedIDs(Tail(parts))

\* echo.NewHTTPError(status, message)
NewHTTPError(status, message) == newAPIError(status, message, NoPayload)

RtRequiredError ==
    NewHTTPError(StatusBadRequest,
                 "query parameter 'rt' is required (comma-separated route designators)")

TooManyRoutesError ==
    NewHTTPError(StatusBadRequest, "a maximum of 10 routes can be requested at once")

\* GetVehicleLocations without the check against maxRouteParams.
GetVehicleLocationsBody_NoMaximum(rt) ==
    LET param == TrimSpace(rt)
        ids == TrimmedIDs(Split(param))
    IN  IF param = <<>> THEN [routeParam |-> param, call |-> FALSE, err |-> RtRequiredError]
        ELSE IF Len(ids) = 0
        THEN [routeParam |-> param, call |-> FALSE, err |-> RtRequiredError]
        ELSE [routeParam |-> param, call |-> TRUE, routeIDs |-> ids]

\* GetVehicleLocations from the query parameter rt to the call of the service:
\* the trimmed parameter, and either the 400 it answers or the ids it passes
\* to GetVehicles.
GetVehicleLocationsBody(rt) ==
    LET param == TrimSpace(rt)
        ids == TrimmedIDs(Split(param))
    IN  IF param = <<>> THEN [routeParam |-> param, call |-> FALSE, err |-> RtRequiredError]
        ELSE IF Len(ids) = 0
        THEN [routeParam |-> param, call |-> FALSE, err |-> RtRequiredError]
        ELSE IF Len(ids) > maxRouteParams
        THEN [routeParam |-> param, call |-> FALSE, err |-> TooManyRoutesError]
        ELSE [routeParam |-> param, call |-> TRUE, routeIDs |-> ids]

\* n distinct route designators, comma-joined.
RtOf(n) == Join([k \in 1..n |-> MasterRoute(k).Rt])

\* Values of the query parameter rt: absent, blank, only separators, one id,
\* ids with blanks around and between them, and lists of maxRouteParams and
\* maxRouteParams + 1 ids with and without blank pieces.
RtParams ==
    { <<>>, <<" ", " ">>, <<",">>, <<" ", ",", " ", ",">>,
      <<"8">>, <<" ", "8", " ", ",", ",", " ", "1", "5", ",", " ">>,
      RtOf(maxRouteParams), RtOf(maxRouteParams + 1),
      <<",", " ">> \o RtOf(maxRouteParams) \o <<",", " ", ",">>,
      <<",">> \o RtOf(maxRouteParams + 1) }

\* Handlers.GetVehicleLocations: answers 400 by itself or calls
\* CTAService.GetVehicles with the ids of rt.
HandleGetVehicleLocations ==
    /\ pc = "idle"
    /\ \E rt \in RtParams :
          LET body == GetVehicleLocationsBody(rt)
          IN  /\ routeParam' = body.routeParam
              /\ IF body.call
                 THEN /\ reqRoutes' = body.routeIDs
                      /\ op' = "GetVehicles"
                      /\ pc' = "sendVehicles"
                      /\ UNCHANGED result
                 ELSE /\ op' = "GetVehicleLocations"
                      /\ pc' = "done"
                      /\ result' = ReturnNil(body.err)
                      /\ UNCHANGED reqRoutes
    /\ UNCHANGED <<ctxCancelled, upstreamRoutes, upstreamChanges, trackerMode, apiKey, tracked,
                   statsRoutes, routeIDs, i, allVehicles, sent, vehCall, calls,
                   routesCall, parked, pureVars>>

\* Handlers.GetAllVehicleLocations -> CTAService.GetAllVehicles
CallGetAllVehicles ==
    /\ pc = "idle"
    /\ op' = "GetAllVehicles"
    /\ pc' = "sendRoutes"
    /\ UNCHANGED <<ctxCancelled, upstreamRoutes, upstreamChanges, trackerMode, apiKey, tracked,
                   statsRoutes, routeIDs, i, allVehicles, reqRoutes, sent, vehCall,
                   calls, result, routesCall, routeParam, parked, pureVars>>

\* Handlers.GetRouteStats -> CTAService.GetRouteStats
CallGetRouteStats ==
    /\ pc = "idle"
    /\ op' = "GetRouteStats"
    /\ pc' = "sendStatsRoutes"
    /\ UNCHANGED <<ctxCancelled, upstreamRoutes, upstreamChanges, trackerMode, apiKey, tracked,
                   statsRoutes, routeIDs, i, allVehicles, reqRoutes, sent, vehCall,
                   calls, result, routesCall, routeParam, parked, pureVars>>

\* The caller's context is cancelled while the request runs.
Cancel ==
    /\ pc \notin {"main", "fatal", "idle", "done"}
    /\ ~ctxCancelled
    /\ ctxCancelled' = TRUE
    /\ UNCHANGED <<op, pc, upstreamRoutes, upstreamChanges, trackerMode, apiKey, tracked,
                   statsRoutes, routeIDs, i, allVehicles, reqRoutes, sent, vehCall,
                   calls, result, routesCall, routeParam, parked, pureVars>>

\* The upstream route list changes while the request runs.
UpstreamChange ==
    /\ pc \notin {"main", "fatal", "idle", "done"}
    /\ upstreamChanges < MaxUpstreamChanges
    /\ upstreamRoutes' \in ChangedLists(upstreamRoutes)
    /\ upstreamChanges' = upstreamChanges + 1
    /\ UNCHANGED <<op, pc, ctxCancelled, trackerMode, apiKey, tracked, statsRoutes,
                   routeIDs, i, allVehicles, reqRoutes, sent, vehCall, calls, result,
                   routesCall, routeParam, parked, pureVars>>

\* GetRoutes up to client.Do: a cancelled context makes Do return its error
\* without a request on the wire; otherwise the request is sent.
DoRoutes ==
    /\ pc \in {"sendRoutes", "sendStatsRoutes"}
    /\ IF ctxCancelled
       THEN LET body == GetRoutesBody(Outcome("transport", NoRouteEnvelope))
            IN  /\ \E l \in AfterGetRoutes(Locals, body.ret) : Install(l)
                /\ calls' = Append(calls, Call(GetRoutesURL, "transport", body.ret))
                /\ routesCall' = RoutesCall(Outcome("transport", NoRouteEnvelope), body.ret,
                                            body.consulted)
                /\ UNCHANGED sent
       ELSE /\ sent' = Append(sent, Request(GetRoutesURL, <<>>))
            /\ pc' = IF pc = "sendRoutes" THEN "awaitRoutes" ELSE "awaitStatsRoutes"
            /\ routesCall' = RoutesCall(NoRouteOutcome, NoReturn, 0)
            /\ UNCHANGED <<statsRoutes, routeIDs, i, allVehicles, reqRoutes, calls, result>>
    /\ UNCHANGED <<op, ctxCancelled, upstreamRoutes, upstreamChanges, trackerMode, apiKey, tracked,
                   vehCall, routeParam, parked, pureVars>>

\* GetRoutes from the return of client.Do to its own return.  A context
\* cancelled while the request is in flight aborts it.
RoutesResponse ==
    /\ pc \in {"awaitRoutes", "awaitStatsRoutes"}
    /\ \E o \in (IF ctxCancelled THEN {Outcome(k, NoRouteEnvelope) : k \in FailureKinds}
                 ELSE RouteOutcomes(upstreamRoutes)) :
          LET body == GetRoutesBody(o)
              ret == IF body.track THEN ReturnAfterTracking(body.ret) ELSE body.ret
          IN  /\ tracked' = IF body.track THEN TrackerBlock(tracked, GetRoutesURL) ELSE tracked
              /\ calls' = Append(calls, Call(GetRoutesURL, o.kind, ret))
              /\ routesCall' = RoutesCall(o, ret, body.consulted)
              /\ \E l \in AfterGetRoutes(Locals, ret) : Install(l)
    /\ UNCHANGED <<op, ctxCancelled, upstreamRoutes, upstreamChanges, trackerMode, apiKey, sent,
                   vehCall, routeParam, parked, pureVars>>

\* GetVehicles building its request without the caller's context.
DoVehicles_IgnoresContext ==
    /\ pc = "sendVehicles"
    /\ IF Len(reqRoutes) = 0
       THEN /\ \E l \in AfterGetVehicles(Locals, ReturnNil(NoRoutesError)) : Install(l)
            /\ vehCall' = VehCall(NoOutcome, ReturnNil(NoRoutesError), 0)
            /\ UNCHANGED <<sent, calls>>
       ELSE /\ sent' = Append(sent, Request(GetVehiclesURL, Join(reqRoutes)))
            /\ pc' = "awaitVehicles"
            /\ vehCall' = VehCall(NoOutcome, NoReturn, 0)
            /\ UNCHANGED <<statsRoutes, routeIDs, i, allVehicles, reqRoutes, calls, result>>
    /\ UNCHANGED <<op, ctxCancelled, upstreamRoutes, upstreamChanges, trackerMode, apiKey, tracked,
                   routesCall, routeParam, parked, pureVars>>

\* GetVehicles without its argument check.
DoVehicles_NoArgumentCheck ==
    /\ pc = "sendVehicles"
    /\ IF ctxCancelled
       THEN LET body == GetVehiclesBody(Outcome("transport", NoVehicleEnvelope))
            IN  /\ \E l \in AfterGetVehicles(Locals, body.ret) : Install(l)
                /\ vehCall' = VehCall(Outcome("transport", NoVehicleEnvelope), body.ret, 0)
                /\ calls' = Append(calls, Call(GetVehiclesURL, "transport", body.ret))
                /\ UNCHANGED sent
       ELSE /\ sent' = Append(sent, Request(GetVehiclesURL, Join(reqRoutes)))
            /\ pc' = "awaitVehicles"
            /\ vehCall' = VehCall(NoOutcome, NoReturn, 0)
            /\ UNCHANGED <<statsRoutes, routeIDs, i, allVehicles, reqRoutes, calls, result>>
    /\ UNCHANGED <<op, ctxCancelled, upstreamRoutes, upstreamChanges, trackerMode, apiKey,
                   tracked, routesCall, routeParam, parked, pureVars>>

\* The batch loop issuing the request of the following batch together with the
\* current one.
DoVehicles_Pipelined ==
    /\ pc = "sendVehicles"
    /\ IF Len(reqRoutes) = 0
       THEN /\ \E l \in AfterGetVehicles(Locals, ReturnNil(NoRoutesError)) : Install(l)
            /\ vehCall' = VehCall(NoOutcome, ReturnNil(NoRoutesError), 0)
            /\ UNCHANGED <<sent, calls>>
       ELSE IF ctxCancelled
       THEN LET body == GetVehiclesBody(Outcome("transport", NoVehicleEnvelope))
            IN  /\ \E l \in AfterGetVehicles(Locals, body.ret) : Install(l)
                /\ vehCall' = VehCall(Outcome("transport", NoVehicleEnvelope), body.ret, 0)
                /\ calls' = Append(calls, Call(GetVehiclesURL, "transport", body.ret))
                /\ UNCHANGED sent
       ELSE /\ sent' = IF op # "GetVehicles" /\ i + BatchSize < Len(routeIDs)
                       THEN sent \o <<Request(GetVehiclesURL, Join(reqRoutes)),
                                      Request(GetVehiclesURL,
                                              Join(BatchAt(routeIDs, i + BatchSize)))>>
                       ELSE Append(sent, Request(GetVehiclesURL, Join(reqRoutes)))
            /\ pc' = "awaitVehicles"
            /\ vehCall' = VehCall(NoOutcome, NoReturn, 0)
            /\ UNCHANGED <<statsRoutes, routeIDs, i, allVehicles, reqRoutes, calls, result>>
    /\ UNCHANGED <<op, ctxCancelled, upstreamRoutes, upstreamChanges, trackerMode, apiKey, tracked,
                   routesCall, routeParam, parked, pureVars>>

\* GetVehicles up to client.Do: the argument check, then as DoRoutes; rt
\* carries the comma-joined route designators.
DoVehicles ==
    /\ pc = "sendVehicles"
    /\ IF Len(reqRoutes) = 0
       THEN /\ \E l \in AfterGetVehicles(Locals, ReturnNil(NoRoutesError)) : Install(l)
            /\ vehCall' = VehCall(NoOutcome, ReturnNil(NoRoutesError), 0)
            /\ UNCHANGED <<sent, calls>>
       ELSE IF ctxCancelled
       THEN LET body == GetVehiclesBody(Outcome("transport", NoVehicleEnvelope))
            IN  /\ \E l \in AfterGetVehicles(Locals, body.ret) : Install(l)
                /\ vehCall' = VehCall(Outcome("transport", NoVehicleEnvelope), body.ret, 0)
                /\ calls' = Append(calls, Call(GetVehiclesURL, "transport", body.ret))
                /\ UNCHANGED sent
       ELSE /\ sent' = Append(sent, Request(GetVehiclesURL, Join(reqRoutes)))
            /\ pc' = "awaitVehicles"
            /\ vehCall' = VehCall(NoOutcome, NoReturn, 0)
            /\ UNCHANGED <<statsRoutes, routeIDs, i, allVehicles, reqRoutes, calls, result>>
    /\ UNCHANGED <<op, ctxCancelled, upstreamRoutes, upstreamChanges, trackerMode, apiKey, tracked,
                   routesCall, routeParam, parked, pureVars>>

\* GetVehicles from the return of client.Do to its own return.
VehiclesResponse ==
    /\ pc = "awaitVehicles"
    /\ \E o \in (IF ctxCancelled THEN {Outcome(k, NoVehicleEnvelope) : k \in FailureKinds}
                 ELSE VehicleOutcomes) :
          LET body == GetVehiclesBody(o)
              ret == IF body.track THEN ReturnAfterTracking(body.ret) ELSE body.ret
          IN  /\ vehCall' = VehCall(o, ret, body.consulted)
              /\ calls' = Append(calls, Call(GetVehiclesURL, o.kind, ret))
              /\ tracked' = IF body.track THEN TrackerBlock(tracked, GetVehiclesURL) ELSE tracked
              /\ \E l \in AfterGetVehicles(Locals, ret) : Install(l)
    /\ UNCHANGED <<op, ctxCancelled, upstreamRoutes, upstreamChanges, trackerMode, apiKey, sent,
                   routesCall, routeParam, parked, pureVars>>

\* A request that has not started: the locals of an operation on the goroutine
\* of its request.
FreshRequest ==
    [op |-> "idle", pc |-> "idle", ctxCancelled |-> FALSE, statsRoutes |-> <<>>,
     routeIDs |-> <<>>, i |-> 0, allVehicles |-> <<>>, reqRoutes |-> <<>>, sent |-> <<>>,
     vehCall |-> VehCall(NoOutcome, NoReturn, 0), calls |-> <<>>, result |-> NoReturn,
     routesCall |-> RoutesCall(NoRouteOutcome, NoReturn, 0), routeParam |-> <<>>]

\* MapPage: defaultToggleState
defaultToggleState == [location |-> FALSE, allRoutes |-> TRUE, favoriteRoutes |-> FALSE]

\* No comparison made yet.
NoLessOut == [set |-> FALSE, ab |-> FALSE, ba |-> FALSE, bc |-> FALSE, ac |-> FALSE]

LessIdle ==
    /\ lessIn = <<>>
    /\ lessOut = NoLessOut

PageIdle ==
    /\ displayToggles = defaultToggleState
    /\ activeRouteIds = <<>>
    /\ busRoutesData = "null"
    /\ isLoadingRouteShapes = FALSE
    /\ routeShapesError = "null"
    /\ routeShapesRequestId = 0
    /\ loads = {}
    /\ effectLoad = 0

ServiceStart ==
    /\ op = "idle"
    /\ pc = "main"
    /\ routesCall = FreshRequest.routesCall
    /\ routeParam = <<>>
    /\ parked = FreshRequest
    /\ apiKey = ""
    /\ calls = <<>>
    /\ ctxCancelled = FALSE
    /\ upstreamChanges = 0
    /\ tracked = <<>>
    /\ statsRoutes = <<>>
    /\ routeIDs = <<>>
    /\ i = 0
    /\ allVehicles = <<>>
    /\ reqRoutes = <<>>
    /\ sent = <<>>
    /\ vehCall = VehCall(NoOutcome, NoReturn, 0)
    /\ result = NoReturn

\* main before NewCTAService, with any of the trackers NewAPICallTracker can
\* leave it.
ServiceInit ==
    /\ ServiceStart
    /\ upstreamRoutes \in RouteLists
    /\ trackerMode \in {"nil", "ok", "fail"}

HeadingIdle ==
    /\ hIn = <<>>
    /\ hOut = "unset"
    /\ hStats = <<>>

NoDataIdle ==
    /\ ndIn = <<>>
    /\ ndOut = "unset"

PureIdle == HeadingIdle /\ NoDataIdle /\ LessIdle /\ PageIdle

Init == ServiceInit /\ PureIdle

\* One request against an upstream whose route list stays as it is.
Next ==
    \/ Main
    \/ CallGetRoutes
    \/ CallGetVehicles
    \/ HandleGetVehicleLocations
    \/ CallGetAllVehicles
    \/ CallGetRouteStats
    \/ Cancel
    \/ DoRoutes
    \/ RoutesResponse
    \/ DoVehicles
    \/ VehiclesResponse

Spec == Init /\ [][Next]_vars

\* One request against an upstream whose route list changes meanwhile.
MaxChurnRoutes == 2

ChurnRouteLists ==
    {MasterPrefix(n) : n \in (0..MaxChurnRoutes) \cup {BatchSize, BatchSize + 1}}
        \cup SpecialRouteLists

InitChurn ==
    /\ ServiceStart
    /\ upstreamRoutes \in ChurnRouteLists
    /\ trackerMode \in {"nil", "ok", "fail"}
    /\ PureIdle

NextChurn == Next \/ UpstreamChange

SpecChurn == InitChurn /\ [][NextChurn]_vars

(***************************************************************************)
(* The classifiers on their own                                            *)
(***************************************************************************)

ServiceIdle ==
    /\ ServiceStart
    /\ upstreamRoutes = <<>>
    /\ trackerMode = "nil"

MaxHeading == 725

\* Strings strconv.Atoi rejects.
MalformedHeadings ==
    { <<>>, <<"-">>, <<"+">>, <<"N">>, <<"N","E">>, <<"9","0",".","5">>, <<" ","9","0">>,
      <<"9","0"," ">>, <<"1","2","x">>, <<"-","-","5">>, <<"4","5","+">>, <<"1",",","0">> }

\* Decimal strings, with and without a sign or a leading zero, and malformed ones.
HeadingStrings ==
    {IntToStr(n) : n \in (0 - MaxHeading)..MaxHeading}
        \cup {<<"+">> \o NatToStr(n) : n \in 0..FullCircle}
        \cup {<<"0">> \o NatToStr(n) : n \in 0..FullCircle}
        \cup {<<"-","0">>}
        \cup MalformedHeadings

Bucket(northEast) == IF northEast THEN "NorthEast" ELSE "SouthWest"

HeadingRoute == [RouteNumber |-> <<"8">>, RouteName |-> "Halsted"]

\* isNorthOrEastbound(hIn), and the statistics GetRouteStats computes for one
\* route with one vehicle of that heading.
ClassifyHeading ==
    /\ hOut = "unset"
    /\ hOut' = Bucket(isNorthOrEastbound(hIn))
    /\ hStats' \in RouteStatsResults(<<HeadingRoute>>,
                       <<[VehicleID |-> "v", Route |-> HeadingRoute.RouteNumber,
                          Heading |-> hIn]>>)
    /\ UNCHANGED <<serviceVars, hIn, noDataVars, lessVars, pageVars>>

InitHeading ==
    /\ ServiceIdle
    /\ hIn \in HeadingStrings
    /\ hOut = "unset"
    /\ hStats = <<>>
    /\ NoDataIdle
    /\ LessIdle
    /\ PageIdle

NextHeading == ClassifyHeading

SpecHeading == InitHeading /\ [][NextHeading]_vars

\* isNoDataError(ndIn)
ClassifyErrors ==
    /\ ndOut = "unset"
    /\ ndOut' = IF isNoDataError(ndIn) THEN "true" ELSE "false"
    /\ UNCHANGED <<serviceVars, headingVars, ndIn, lessVars, pageVars>>

InitNoData ==
    /\ ServiceIdle
    /\ HeadingIdle
    /\ ndIn \in ErrorLists
    /\ ndOut = "unset"
    /\ LessIdle
    /\ PageIdle

NextNoData == ClassifyErrors

SpecNoData == InitNoData /\ [][NextNoData]_vars

\* The request that is running, as the locals of its goroutine.
CurrentRequest ==
    [op |-> op, pc |-> pc, ctxCancelled |-> ctxCancelled, statsRoutes |-> statsRoutes,
     routeIDs |-> routeIDs, i |-> i, allVehicles |-> allVehicles, reqRoutes |-> reqRoutes,
     sent |-> sent, vehCall |-> vehCall, calls |-> calls, result |-> result,
     routesCall |-> routesCall, routeParam |-> routeParam]

\* A service whose batch loop accumulates into a field of CTAService instead
\* of the local allVehicles.
Resumed_SharedAccumulator(saved) == [saved EXCEPT !.allVehicles = allVehicles]

\* What a goroutine finds when it runs again: its own locals, as it left them.
\* CTAService has no field an operation writes.
Resumed(saved) == saved

\* The scheduler takes the running request off the processor and runs the
\* other one; apiKey, the tracker and the upstream are the same for both.
Switch ==
    /\ pc \notin {"main", "fatal"}
    /\ parked # CurrentRequest
    /\ LET r == Resumed(parked)
       IN  /\ op' = r.op
           /\ pc' = r.pc
           /\ ctxCancelled' = r.ctxCancelled
           /\ statsRoutes' = r.statsRoutes
           /\ routeIDs' = r.routeIDs
           /\ i' = r.i
           /\ allVehicles' = r.allVehicles
           /\ reqRoutes' = r.reqRoutes
           /\ sent' = r.sent
           /\ vehCall' = r.vehCall
           /\ calls' = r.calls
           /\ result' = r.result
           /\ routesCall' = r.routesCall
           /\ routeParam' = r.routeParam
    /\ parked' = CurrentRequest
    /\ UNCHANGED <<upstreamRoutes, upstreamChanges, trackerMode, apiKey, tracked, pureVars>>

\* Two requests on one CTAService with a recording tracker, against an
\* upstream that publishes one route.
InitConcurrent ==
    /\ ServiceStart
    /\ upstreamRoutes = <<MasterRoute(1)>>
    /\ trackerMode = "ok"
    /\ PureIdle

NextConcurrent ==
    \/ Main
    \/ CallGetRoutes
    \/ CallGetVehicles
    \/ CallGetAllVehicles
    \/ CallGetRouteStats
    \/ DoRoutes
    \/ RoutesResponse
    \/ DoVehicles
    \/ VehiclesResponse
    \/ Switch

SpecConcurrent == InitConcurrent /\ [][NextConcurrent]_vars

(***************************************************************************)
(* MapPage: display toggles, selected routes and the route-shape loader     *)
(***************************************************************************)

ToggleIds == {"location", "allRoutes", "favoriteRoutes"}

\* The objects JSON.parse can deliver for the stored toggles: any of the three
\* keys present or absent (nothing stored is the object without keys).
StoredToggles == UNION {[keys -> BOOLEAN] : keys \in SUBSET ToggleIds}

\* { ...defaultToggleState, ...parsed }
Overlay(parsed) ==
    [id \in ToggleIds |-> IF id \in DOMAIN parsed THEN parsed[id] ELSE defaultToggleState[id]]

\* handleDisplayToggleChange: the updater handed to setDisplayToggles.
handleDisplayToggleChange(prev, id) ==
    LET next == [prev EXCEPT ![id] = ~prev[id]]
    IN  IF id = "allRoutes" /\ next.allRoutes THEN [next EXCEPT !.favoriteRoutes = FALSE]
        ELSE IF id = "favoriteRoutes" /\ next.favoriteRoutes
        THEN [next EXCEPT !.allRoutes = FALSE]
        ELSE next

\* SideMenu: isBlocked, the disabled attribute of the button of option id.
isBlocked(id, toggles) ==
    \/ id = "allRoutes" /\ toggles.favoriteRoutes
    \/ id = "favoriteRoutes" /\ toggles.allRoutes

\* Route ids of the side menu.
PageRouteIds == {"8", "22", "151"}

Includes(list, id) == \E k \in 1..Len(list) : list[k] = id

\* Array.from(new Set(next)): the first occurrence of every element, in order.
RECURSIVE Dedup(_)
Dedup(list) ==
    IF list = <<>> THEN <<>>
    ELSE LET front == Dedup(SubSeq(list, 1, Len(list) - 1))
             last == list[Len(list)]
         IN  IF Includes(front, last) THEN front ELSE Append(front, last)

\* toggleActiveRoute adding the route without looking for it first.
toggleActiveRoute_AppendOnly(prev, routeId) == Dedup(Append(prev, routeId))

\* toggleActiveRoute: the updater handed to setActiveRouteIds.
toggleActiveRoute(prev, routeId) ==
    LET next == IF Includes(prev, routeId)
                THEN SelectSeq(prev, LAMBDA id : id # routeId)
                ELSE Append(prev, routeId)
    IN  Dedup(next)

\* The lists the page writes to localStorage and getStoredRouteIds reads
\* back: selections of up to two routes, in click order.
StoredRouteIds ==
    {<<>>} \cup {<<a>> : a \in PageRouteIds}
           \cup {pair \in PageRouteIds \X PageRouteIds : pair[1] # pair[2]}

MaxRequestId == 3

\* The state the route-shape effect reads and writes.
Loader ==
    [busRoutesData |-> busRoutesData, isLoadingRouteShapes |-> isLoadingRouteShapes,
     routeShapesError |-> routeShapesError, routeShapesRequestId |-> routeShapesRequestId,
     loads |-> loads, effectLoad |-> effectLoad]

\* The loader of a page that has not run an effect yet.
FreshLoader ==
    [busRoutesData |-> "null", isLoadingRouteShapes |-> FALSE, routeShapesError |-> "null",
     routeShapesRequestId |-> 0, loads |-> {}, effectLoad |-> 0]

InstallLoader(l) ==
    /\ busRoutesData' = l.busRoutesData
    /\ isLoadingRouteShapes' = l.isLoadingRouteShapes
    /\ routeShapesError' = l.routeShapesError
    /\ routeShapesRequestId' = l.routeShapesRequestId
    /\ loads' = l.loads
    /\ effectLoad' = l.effectLoad

\* The cleanup of the effect: abortController.abort() on the controller of
\* the load the last effect run started, if it started one.
Cleanup(l) ==
    [l EXCEPT !.loads = {IF load.requestId = l.effectLoad
                         THEN [load EXCEPT !.aborted = TRUE] ELSE load : load \in l.loads}]

\* The body of the route-shape effect, up to the first await of loadRoutes.
LoadEffect(toggles, routeIds, l) ==
    IF ~toggles.allRoutes /\ ~toggles.favoriteRoutes /\ Len(routeIds) = 0
    THEN [l EXCEPT !.effectLoad = 0]
    ELSE IF l.busRoutesData # "null"
    THEN [l EXCEPT !.effectLoad = 0]
    ELSE LET requestId == l.routeShapesRequestId + 1
         IN  [l EXCEPT !.routeShapesRequestId = requestId,
                       !.routeShapesError = "null",
                       !.isLoadingRouteShapes = TRUE,
                       !.loads = l.loads \cup {[requestId |-> requestId, aborted |-> FALSE]},
                       !.effectLoad = requestId]

\* The dependency array of the effect.
EffectDeps(toggles, routeIds, data) ==
    <<Len(routeIds), toggles.allRoutes, toggles.favoriteRoutes, data>>

\* The render after a state update: when a dependency changed the cleanup of
\* the last run is called and the effect runs again.
Rerender(toggles, routeIds, l) ==
    IF EffectDeps(toggles, routeIds, l.busRoutesData)
           # EffectDeps(displayToggles, activeRouteIds, busRoutesData)
    THEN LoadEffect(toggles, routeIds, Cleanup(l))
    ELSE l

\* A click on the button of a display option that is not disabled.
HandleDisplayToggleChange ==
    /\ routeShapesRequestId < MaxRequestId
    /\ \E id \in ToggleIds :
          /\ ~isBlocked(id, displayToggles)
          /\ LET next == handleDisplayToggleChange(displayToggles, id)
             IN  /\ displayToggles' = next
                 /\ InstallLoader(Rerender(next, activeRouteIds, Loader))
    /\ UNCHANGED <<serviceVars, headingVars, noDataVars, lessVars, activeRouteIds>>

\* A click on a route of the side menu.
ToggleActiveRoute ==
    /\ routeShapesRequestId < MaxRequestId
    /\ \E routeId \in PageRouteIds :
          LET next == toggleActiveRoute(activeRouteIds, routeId)
          IN  /\ activeRouteIds' = next
              /\ InstallLoader(Rerender(displayToggles, next, Loader))
    /\ UNCHANGED <<serviceVars, headingVars, noDataVars, lessVars, displayToggles>>

\* onClearActiveRoutes: the button is rendered while a route is selected.
ClearActiveRoutes ==
    /\ routeShapesRequestId < MaxRequestId
    /\ Len(activeRouteIds) > 0
    /\ activeRouteIds' = <<>>
    /\ InstallLoader(Rerender(displayToggles, <<>>, Loader))
    /\ UNCHANGED <<serviceVars, headingVars, noDataVars, lessVars, displayToggles>>

\* loadRoutes runs to its end without an exception: the data is written and
\* the flag cleared unless the load was aborted or superseded.
LoadSucceeds ==
    /\ \E load \in loads :
          LET current == ~load.aborted /\ routeShapesRequestId = load.requestId
              settled == [Loader EXCEPT
                              !.loads = loads \ {load},
                              !.busRoutesData = IF current THEN "data" ELSE busRoutesData,
                              !.isLoadingRouteShapes =
                                  IF current THEN FALSE ELSE isLoadingRouteShapes]
          IN  InstallLoader(Rerender(displayToggles, activeRouteIds, settled))
    /\ UNCHANGED <<serviceVars, headingVars, noDataVars, lessVars, displayToggles,
                   activeRouteIds>>

\* loadRoutes ends in its catch block: fetch rejected (as it does when the
\* controller is aborted) or the download could not be read.
LoadFails ==
    /\ \E load \in loads :
          LET current == ~load.aborted /\ routeShapesRequestId = load.requestId
              settled == [Loader EXCEPT
                              !.loads = loads \ {load},
                              !.routeShapesError =
                                  IF load.aborted THEN routeShapesError ELSE "error",
                              !.isLoadingRouteShapes =
                                  IF current THEN FALSE ELSE isLoadingRouteShapes]
          IN  InstallLoader(Rerender(displayToggles, activeRouteIds, settled))
    /\ UNCHANGED <<serviceVars, headingVars, noDataVars, lessVars, displayToggles,
                   activeRouteIds>>

\* The page after mounting: the toggles and the selected routes from
\* localStorage, and the first run of the effect.
InitPage ==
    /\ ServiceIdle
    /\ HeadingIdle
    /\ NoDataIdle
    /\ LessIdle
    /\ \E parsed \in StoredToggles : displayToggles = Overlay(parsed)
    /\ activeRouteIds \in StoredRouteIds
    /\ LET l == LoadEffect(displayToggles, activeRouteIds, FreshLoader)
       IN  /\ busRoutesData = l.busRoutesData
           /\ isLoadingRouteShapes = l.isLoadingRouteShapes
           /\ routeShapesError = l.routeShapesError
           /\ routeShapesRequestId = l.routeShapesRequestId
           /\ loads = l.loads
           /\ effectLoad = l.effectLoad

NextPage ==
    \/ HandleDisplayToggleChange
    \/ ToggleActiveRoute
    \/ ClearActiveRoutes
    \/ LoadSucceeds
    \/ LoadFails

SpecPage == InitPage /\ [][NextPage]_vars

\* Route numbers the comparison of the sort is applied to: integers of one and
\* two digits, and identifiers strconv.Atoi rejects.
LessRouteNumbers ==
    { <<"9">>, <<"1", "0">>, <<"1", "A">>, <<"2">>, <<"1", "5">>, <<"X", "9">> }

\* The less function of GetRouteStats applied to the pairs of three route
\* numbers.
CompareRoutes ==
    /\ ~lessOut.set
    /\ lessOut' = [set |-> TRUE,
                   ab |-> RouteLess(lessIn[1], lessIn[2]),
                   ba |-> RouteLess(lessIn[2], lessIn[1]),
                   bc |-> RouteLess(lessIn[2], lessIn[3]),
                   ac |-> RouteLess(lessIn[1], lessIn[3])]
    /\ UNCHANGED <<serviceVars, headingVars, noDataVars, lessIn, pageVars>>

InitLess ==
    /\ ServiceIdle
    /\ HeadingIdle
    /\ NoDataIdle
    /\ lessIn \in LessRouteNumbers \X LessRouteNumbers \X LessRouteNumbers
    /\ lessOut = NoLessOut
    /\ PageIdle

NextLess == CompareRoutes

SpecLess == InitLess /\ [][NextLess]_vars

(***************************************************************************)
(* Properties                                                              *)
(***************************************************************************)

\* The getvehicles requests of this request, in the order they were sent.
VehicleRequests == SelectSeq(sent, LAMBDA r : r.url = GetVehiclesURL)

\* ceil(n / BatchSize)
NumBatches(n) == (n + BatchSize - 1) \div BatchSize

\* The k-th run of BatchSize consecutive identifiers (k from 1).
ConsecutiveIDs(ids, k) ==
    SubSeq(ids, BatchSize * (k - 1) + 1, Min(BatchSize * k, Len(ids)))

InBatches == op \in {"GetAllVehicles", "GetRouteStats"}

\* C1: isNoDataError returns true if and only if the error list is non-empty
\* and every message contains, case-insensitively, "no data found" or "no
\* service scheduled"; the empty list and a list mixing a benign with a
\* non-benign message yield false.
C1_TrueIffEveryMessageBenign ==
    ndOut # "unset" =>
        ((ndOut = "true") <=>
            (ndIn # <<>> /\ \A k \in 1..Len(ndIn) : IsNoDataMsg(ndIn[k].Msg)))

\* C2: a decoded getvehicles response with zero vehicles and at least one
\* error returns the empty (non-nil) list and no error when isNoDataError
\* classifies the errors as benign, and otherwise the 502 error that carries
\* the raw envelope, with no vehicle list.
C2_ZeroVehiclesWithErrors ==
    LET env == vehCall.resp.env
    IN  (vehCall.resp.kind = "decoded" /\ Len(env.Vehicles) = 0 /\ Len(env.Error) > 0) =>
            IF isNoDataError(env.Error)
            THEN vehCall.ret = Return(<<>>, NilError)
            ELSE /\ vehCall.ret.isNil
                 /\ vehCall.ret.val = <<>>
                 /\ vehCall.ret.err.status = StatusBadGateway
                 /\ vehCall.ret.err.payload.present
                 /\ vehCall.ret.err.payload.Error = env.Error
                 /\ vehCall.ret.err.payload.Vehicles = env.Vehicles

C2_Witness ==
    /\ op = "GetVehicles"
    /\ pc = "done"
    /\ vehCall.resp.kind = "decoded"
    /\ vehCall.resp.env.Vehicles = <<>>
    /\ vehCall.resp.env.Error = <<CtaError(MsgInvalidKey)>>
    /\ result.err.payload.present

\* C3: a decoded getvehicles response with at least one vehicle is a success
\* whatever its error array holds: one output vehicle per upstream vehicle, in
\* order, no error, and isNoDataError is not evaluated.
C3_VehiclesMeanSuccess ==
    LET env == vehCall.resp.env
    IN  (vehCall.resp.kind = "decoded" /\ Len(env.Vehicles) >= 1) =>
            /\ Succeeded(vehCall.ret)
            /\ ~vehCall.ret.isNil
            /\ Len(vehCall.ret.val) = Len(env.Vehicles)
            /\ \A k \in 1..Len(env.Vehicles) :
                   /\ vehCall.ret.val[k].VehicleID = env.Vehicles[k].Vid
                   /\ vehCall.ret.val[k].Route = env.Vehicles[k].Rt
                   /\ vehCall.ret.val[k].Heading = env.Vehicles[k].Hdg
            /\ vehCall.consulted = 0

C3_Witness ==
    /\ vehCall.resp.kind = "decoded"
    /\ Len(vehCall.resp.env.Vehicles) = 3
    /\ vehCall.resp.env.Error = <<CtaError(MsgInvalidKey)>>
    /\ Succeeded(vehCall.ret)

\* C4: in GetAllVehicles the k-th getvehicles request carries the consecutive
\* identifiers [10(k-1), min(10k, L)) of the route list, joined in list order;
\* a run in which no batch fails issues exactly ceil(L/10) of them and returns
\* the concatenation of the per-batch results in batch order.
C4_BatchesSentSoFar ==
    InBatches =>
        /\ Len(VehicleRequests) <= NumBatches(Len(routeIDs))
        /\ \A k \in 1..Len(VehicleRequests) :
               VehicleRequests[k].rt = Join(ConsecutiveIDs(routeIDs, k))
        /\ (op = "GetAllVehicles" /\ pc = "done" /\ Succeeded(result)) =>
               /\ Len(VehicleRequests) = NumBatches(Len(routeIDs))
               /\ result.val = allVehicles

C4_BatchAppended ==
    (InBatches /\ pc = "awaitVehicles" /\ Succeeded(vehCall'.ret)) =>
        allVehicles' = allVehicles \o vehCall'.ret.val

C4_BatchingAndConcatenation == []C4_BatchesSentSoFar /\ [][C4_BatchAppended]_vars

C4_Witness ==
    /\ op = "GetAllVehicles"
    /\ pc = "done"
    /\ Succeeded(result)
    /\ Len(routeIDs) = 25
    /\ Len(VehicleRequests) = 3
    /\ result.val = ToVehicles(<<V90, V15, VGone, VBlank, V270, VBad>>)

\* C5: in GetAllVehicles the first batch whose GetVehicles call fails ends the
\* operation: the caller gets that error and a nil list although vehicles were
\* accumulated, the failed batch was requested at most once and no later batch
\* is requested.
C5_FirstFailureAborts ==
    (InBatches /\ Failed(vehCall.ret)) =>
        /\ pc = "done"
        /\ result = ReturnNil(vehCall.ret.err)
        /\ Len(VehicleRequests) <= (i \div BatchSize) + 1
        /\ ~ctxCancelled => Len(VehicleRequests) = (i \div BatchSize) + 1

C5_Witness ==
    /\ op = "GetAllVehicles"
    /\ pc = "done"
    /\ Failed(vehCall.ret)
    /\ ~ctxCancelled
    /\ i = BatchSize
    /\ allVehicles # <<>>
    /\ Len(routeIDs) > 2 * BatchSize
    /\ Len(VehicleRequests) = 2

\* C6: once the caller's context is cancelled during GetAllVehicles no further
\* request is sent upstream, and the operation ends with an error and a nil
\* list, never with the vehicles fetched before the cancellation.
C6_CancelledEndsInError ==
    (op = "GetAllVehicles" /\ ctxCancelled /\ pc = "done") =>
        /\ Failed(result)
        /\ result.isNil
        /\ result.val = <<>>

C6_NothingSentAfterCancel == ctxCancelled => sent' = sent

C6_CancellationAborts == []C6_CancelledEndsInError /\ [][C6_NothingSentAfterCancel]_vars

C6_Witness ==
    /\ op = "GetAllVehicles"
    /\ pc = "done"
    /\ ctxCancelled
    /\ allVehicles # <<>>
    /\ Len(VehicleRequests) = 1
    /\ NumBatches(Len(routeIDs)) = 3
    /\ Failed(result)

\* C7: for a heading that parses as an integer h, the bucket is NorthEast
\* exactly when h mod 360 lies in [316, 360) or [0, 135] and SouthWest exactly
\* when it lies in [136, 315].
C7_BucketByNormalisedHeading ==
    LET parsed == Atoi(hIn)
        h == parsed.val % 360
    IN  (hOut # "unset" /\ parsed.ok) =>
            /\ (hOut = "NorthEast") <=> ((316 <= h /\ h < 360) \/ (0 <= h /\ h <= 135))
            /\ (hOut = "SouthWest") <=> (136 <= h /\ h <= 315)

C7_Witness ==
    /\ hIn \in {<<"1","3","5">>, <<"3","1","6">>}
    /\ hOut = "NorthEast"

\* C8: for headings that parse as integers the bucket is that of the
\* non-negative residue modulo 360, so integers congruent modulo 360 (negative
\* ones included) get the same bucket.
C8_BucketOfResidue ==
    LET parsed == Atoi(hIn)
    IN  (hOut # "unset" /\ parsed.ok) =>
            hOut = Bucket(isNorthOrEastbound(NatToStr(parsed.val % 360)))

C8_Witness ==
    /\ hIn = <<"-","3","1","5">>
    /\ hOut = "NorthEast"

\* C9: a heading that does not parse as an integer (the empty string too) is
\* SouthWest, and the vehicle is counted in its route's total and south/west
\* count by GetRouteStats.
C9_MalformedIsSouthWest ==
    (hOut # "unset" /\ ~Atoi(hIn).ok) =>
        /\ hOut = "SouthWest"
        /\ Len(hStats) = 1
        /\ hStats[1].SouthWestbound = 1
        /\ hStats[1].NorthEastbound = 0
        /\ hStats[1].TotalActive = 1

C9_Witness ==
    /\ hIn = <<>>
    /\ hOut = "SouthWest"
    /\ Len(hStats) = 1

\* The route numbers of GetRouteStats' own route list.
StatsRouteNumbers == {statsRoutes[k].RouteNumber : k \in 1..Len(statsRoutes)}

StatsReturned == op = "GetRouteStats" /\ pc = "done" /\ Succeeded(result)

ZeroCounts(stat) ==
    stat.NorthEastbound = 0 /\ stat.SouthWestbound = 0 /\ stat.TotalActive = 0

\* C10 as claimed: a successful GetRouteStats returns exactly len(R) records,
\* one per entry of its route list R, also when two entries carry the same
\* route identifier.
C10_OneRecordPerEntry ==
    StatsReturned => Len(result.val) = Len(statsRoutes)

\* C10 as amended: a successful GetRouteStats returns exactly one record per
\* distinct route identifier of its route list (len(R) records when the
\* identifiers are pairwise different), with all three counts zero for every
\* route that has no active vehicle.
C10_OneRecordPerRouteNumber ==
    StatsReturned =>
        /\ Len(result.val) = Cardinality(StatsRouteNumbers)
        /\ {result.val[k].RouteNumber : k \in 1..Len(result.val)} = StatsRouteNumbers
        /\ \A k \in 1..Len(result.val) :
               (\A n \in 1..Len(allVehicles) :
                    allVehicles[n].Route # result.val[k].RouteNumber)
                   => ZeroCounts(result.val[k])

C10_Witness ==
    /\ StatsReturned
    /\ Len(statsRoutes) = 2
    /\ Len(result.val) = 1
    /\ ZeroCounts(result.val[1])

RECURSIVE SumTotalActive(_)
SumTotalActive(stats) ==
    IF stats = <<>> THEN 0 ELSE Head(stats).TotalActive + SumTotalActive(Tail(stats))

KnownRoute(v) == v.Route \in StatsRouteNumbers

\* C11: the TotalActive fields of the records a successful GetRouteStats
\* returns add up to the number of fetched vehicles whose route identifier is
\* that of some route of the route list; the route list ["8"] with vehicles
\* heading "90" and "270" on route "8" yields northEast 1, southWest 1, total 2.
C11_TotalsCountMatchingVehicles ==
    StatsReturned =>
        /\ SumTotalActive(result.val)
               = Cardinality({n \in 1..Len(allVehicles) : KnownRoute(allVehicles[n])})
        /\ (/\ Len(statsRoutes) = 1
            /\ statsRoutes[1].RouteNumber = <<"8">>
            /\ allVehicles = ToVehicles(<<V90, V270>>))
               => /\ Len(result.val) = 1
                  /\ result.val[1].RouteNumber = <<"8">>
                  /\ result.val[1].NorthEastbound = 1
                  /\ result.val[1].SouthWestbound = 1
                  /\ result.val[1].TotalActive = 2

C11_Witness ==
    /\ StatsReturned
    /\ Len(statsRoutes) = 1
    /\ statsRoutes[1].RouteNumber = <<"8">>
    /\ allVehicles = ToVehicles(<<V90, V270>>)
    /\ result.val[1].TotalActive = 2

BucketsAddUp(stat) == stat.TotalActive = stat.NorthEastbound + stat.SouthWestbound

\* statsMap after the first n vehicles of the fetched list have been counted.
StatsMapAfter(n) ==
    CountVehicles(BuildStatsMap(statsRoutes, <<>>), SubSeq(allVehicles, 1, n))

\* C12: every record GetRouteStats returns has TotalActive = NorthEastbound +
\* SouthWestbound, and so has every entry of statsMap after each vehicle of the
\* counting loop: a counted vehicle adds one to the total and one to exactly
\* one of the two directional counts of its route's entry, and nothing else.
C12_TotalIsSumOfBuckets ==
    StatsReturned =>
        /\ \A k \in 1..Len(result.val) : BucketsAddUp(result.val[k])
        /\ \A n \in 1..Len(allVehicles) :
               LET before == StatsMapAfter(n - 1)
                   after == StatsMapAfter(n)
                   at == EntryOf(before, allVehicles[n].Route)
               IN  /\ Len(after) = Len(before)
                   /\ \A k \in 1..Len(after) :
                          LET dNE == after[k].NorthEastbound - before[k].NorthEastbound
                              dSW == after[k].SouthWestbound - before[k].SouthWestbound
                              dTotal == after[k].TotalActive - before[k].TotalActive
                          IN  /\ BucketsAddUp(after[k])
                              /\ dNE \in {0, 1} /\ dSW \in {0, 1}
                              /\ dTotal = dNE + dSW
                              /\ dTotal = IF k = at THEN 1 ELSE 0

C12_Witness ==
    /\ StatsReturned
    /\ \E n \in 1..Len(allVehicles) :
           KnownRoute(allVehicles[n]) /\ ~Atoi(allVehicles[n].Heading).ok
    /\ \E k \in 1..Len(result.val) :
           result.val[k].SouthWestbound >= 2 /\ result.val[k].NorthEastbound >= 1

\* C13: a fetched vehicle whose route identifier is that of no route of the
\* route list is dropped: the statistics are those of the list without it, no
\* record exists for its route, and its presence does not fail the operation.
C13_UnknownRouteDropped ==
    /\ StatsReturned =>
           /\ \A k \in 1..Len(result.val) : result.val[k].RouteNumber \in StatsRouteNumbers
           /\ result.val \in RouteStatsResults(statsRoutes, SelectSeq(allVehicles, KnownRoute))
    /\ (/\ op = "GetRouteStats"
        /\ pc = "done"
        /\ Succeeded(vehCall.ret)
        /\ \E n \in 1..Len(allVehicles) : ~KnownRoute(allVehicles[n]))
           => Succeeded(result)

C13_Witness ==
    /\ StatsReturned
    /\ \E n \in 1..Len(allVehicles) : ~KnownRoute(allVehicles[n])
    /\ \E n \in 1..Len(allVehicles) : KnownRoute(allVehicles[n])
    /\ SumTotalActive(result.val) >= 1

\* C14: the records a successful GetRouteStats returns are sorted by route
\* identifier: of any two records the earlier one has the smaller number when
\* both identifiers parse as integers, and the lexically smaller identifier
\* when at least one of them does not.
C14_SortedByRouteIdentifier ==
    StatsReturned =>
        \A j, k \in 1..Len(result.val) :
            j < k =>
                LET numJ == Atoi(result.val[j].RouteNumber)
                    numK == Atoi(result.val[k].RouteNumber)
                IN  IF numJ.ok /\ numK.ok THEN numJ.val <= numK.val
                    ELSE StrLess(result.val[j].RouteNumber, result.val[k].RouteNumber)

\* C15: GetVehicles called with no route identifier returns a nil list and the
\* 400 error "at least one route designator is required"; it sends nothing
\* upstream, calls neither client.Do nor the tracker.
C15_NoRoutesIsInvalidArgument ==
    (op = "GetVehicles" /\ reqRoutes = <<>>) =>
        /\ pc \in {"sendVehicles", "done"}
        /\ sent = <<>>
        /\ calls = <<>>
        /\ tracked = <<>>
        /\ pc = "done" =>
               /\ result = ReturnNil(NoRoutesError)
               /\ result.err.status = 400
               /\ ~result.err.payload.present

C15_Witness ==
    /\ op = "GetVehicles"
    /\ reqRoutes = <<>>
    /\ pc = "done"
    /\ trackerMode = "ok"
    /\ result.err.status = StatusBadRequest

\* C16: NewCTAService builds no service from the empty credential: main stops
\* there, and every operation that runs, every upstream request and every
\* returned error belongs to a service whose key is not empty.
C16_NoServiceWithoutCredential ==
    /\ pc = "fatal" =>
           /\ apiKey = ""
           /\ op = "idle"
           /\ sent = <<>>
           /\ calls = <<>>
           /\ result = NoReturn
    /\ (pc \notin {"main", "fatal"} \/ op # "idle") => apiKey # ""
    /\ \A k \in 1..Len(sent) : sent[k].key # ""

C16_Witness ==
    /\ pc = "fatal"
    /\ apiKey = ""
    /\ sent = <<>>

\* The upstream calls that returned a nil error to their caller.
SuccessfulCalls == SelectSeq(calls, LAMBDA c : Succeeded(c.ret))

RECURSIVE FetchedVehicles(_)
FetchedVehicles(cs) ==
    IF cs = <<>> THEN <<>>
    ELSE IF Head(cs).url = GetVehiclesURL THEN Head(cs).ret.val \o FetchedVehicles(Tail(cs))
    ELSE FetchedVehicles(Tail(cs))

FailedCalls == SelectSeq(calls, LAMBDA c : Failed(c.ret))

\* What the operation returns, as a function of what its upstream calls
\* returned.
ResultFromCalls ==
    /\ op \in {"GetRoutes", "GetVehicles"} /\ calls # <<>> => result = calls[Len(calls)].ret
    /\ InBatches /\ FailedCalls # <<>> => result = ReturnNil(FailedCalls[1].ret.err)
    /\ op = "GetAllVehicles" /\ FailedCalls = <<>> =>
           result = Return(FetchedVehicles(calls), NilError)
    /\ op = "GetRouteStats" /\ FailedCalls = <<>> =>
           /\ Succeeded(result)
           /\ result.val \in RouteStatsResults(statsRoutes, FetchedVehicles(calls))

C19_StatsOrErrorNeverBoth ==
    (op = "GetRouteStats" /\ pc = "done") =>
        /\ \/ Succeeded(result) /\ ~result.isNil
           \/ Failed(result) /\ result.isNil /\ result.val = <<>>
        /\ FailedCalls # <<>> =>
               /\ Failed(result)
               /\ result.err = FailedCalls[1].ret.err
               /\ Len(FailedCalls) = 1
        /\ Succeeded(result) => FailedCalls = <<>>

C19_Witness ==
    /\ op = "GetRouteStats"
    /\ pc = "done"
    /\ Failed(result)
    /\ result.isNil
    /\ Len(VehicleRequests) = 2
    /\ \E n \in 1..Len(allVehicles) : KnownRoute(allVehicles[n])

\* The error kind a caller can read off a returned error: the payload marks an
\* error reported by the upstream, the text of the message the other two.
ErrorKind(err) ==
    IF err.payload.present THEN "UpstreamReportedError"
    ELSE IF err.message = "failed to decode CTA API response" THEN "UpstreamProtocolError"
    ELSE IF err.message \in {"CTA API request failed", "CTA API returned status"}
    THEN "UpstreamUnavailable"
    ELSE "other"

\* C20: an upstream call whose request fails or whose response has a status
\* other than 200 returns an error a caller reads as UpstreamUnavailable, one
\* whose body does not decode an error read as UpstreamProtocolError, and one
\* whose decoded envelope is rejected an error read as UpstreamReportedError
\* that carries the envelope; the three are told apart by the error value.
C20_ErrorKindsDistinguishable ==
    /\ \A k \in 1..Len(calls) :
           LET c == calls[k]
           IN  /\ c.kind \in {"transport", "status"} =>
                      Failed(c.ret) /\ ErrorKind(c.ret.err) = "UpstreamUnavailable"
               /\ c.kind = "decode" =>
                      Failed(c.ret) /\ ErrorKind(c.ret.err) = "UpstreamProtocolError"
               /\ (c.kind = "decoded" /\ Failed(c.ret)) =>
                      /\ ErrorKind(c.ret.err) = "UpstreamReportedError"
                      /\ c.ret.err.payload.Error # <<>>
               /\ Failed(c.ret) => c.ret.err.status = StatusBadGateway
    /\ (/\ vehCall.resp.kind = "decoded"
        /\ vehCall.resp.env.Vehicles = <<>>
        /\ vehCall.resp.env.Error # <<>>
        /\ ~isNoDataError(vehCall.resp.env.Error))
           => ErrorKind(vehCall.ret.err) = "UpstreamReportedError"

C20_Witness ==
    /\ op = "GetAllVehicles"
    /\ pc = "done"
    /\ Len(calls) = 3
    /\ calls[3].kind = "decode"
    /\ ErrorKind(result.err) = "UpstreamProtocolError"

\* C29: GetRoutes fails with the 502 error that carries the envelope whenever
\* the decoded envelope has at least one error entry, also when routes came
\* with it and when every message is a benign no-data message; isNoDataError
\* is evaluated on the vehicle path only.
C29_RoutesFailOnAnyError ==
    /\ (routesCall.resp.kind = "decoded" /\ Len(routesCall.resp.env.Error) > 0) =>
           /\ Failed(routesCall.ret)
           /\ routesCall.ret.isNil
           /\ routesCall.ret.err.status = StatusBadGateway
           /\ routesCall.ret.err.payload = RoutesPayload(routesCall.resp.env)
    /\ (routesCall.resp.kind = "decoded" /\ Len(routesCall.resp.env.Error) = 0) =>
           routesCall.ret = Return(ToRoutes(routesCall.resp.env.Routes), NilError)
    /\ routesCall.consulted = 0
    /\ vehCall.consulted > 0 =>
           /\ vehCall.resp.env.Vehicles = <<>>
           /\ vehCall.resp.env.Error # <<>>

C29_Witness ==
    /\ op = "GetRoutes"
    /\ pc = "done"
    /\ routesCall.resp.kind = "decoded"
    /\ routesCall.resp.env.Routes # <<>>
    /\ routesCall.resp.env.Error = <<CtaError(MsgNoDataParam)>>
    /\ Failed(result)

\* The number of pieces of rt that are not blank.
C22_IDsOf(rt) ==
    Cardinality({k \in 1..Len(Split(rt)) : \E j \in 1..Len(Split(rt)[k]) : Split(rt)[k][j] # " "})

\* C22: no getvehicles request carries more than 10 route ids, whichever
\* operation sends it.  GetVehicleLocations answers 400, with no call of the
\* service and nothing sent, when rt without its blank pieces has no id or
\* more than 10; otherwise it passes exactly those ids on.  The batches of
\* GetAllVehicles have at most 10 ids.
C22_AtMostTenIDsUpstream ==
    /\ \A k \in 1..Len(VehicleRequests) :
           Len(Split(VehicleRequests[k].rt)) \in 1..maxRouteParams
    /\ op = "GetVehicleLocations" =>
           /\ pc = "done"
           /\ C22_IDsOf(routeParam) \notin 1..maxRouteParams
           /\ result.isNil
           /\ result.err.status = StatusBadRequest
           /\ sent = <<>>
           /\ calls = <<>>
           /\ vehCall = FreshRequest.vehCall
           /\ tracked = <<>>
    /\ (op = "GetVehicles" /\ routeParam # <<>>) =>
           /\ C22_IDsOf(routeParam) \in 1..maxRouteParams
           /\ Len(reqRoutes) = C22_IDsOf(routeParam)
           /\ \A k \in 1..Len(reqRoutes) :
                  reqRoutes[k] # <<>> /\ \A j \in 1..Len(reqRoutes[k]) : reqRoutes[k][j] \notin {" ", ","}
    /\ (InBatches /\ pc \in {"sendVehicles", "awaitVehicles"}) =>
           Len(reqRoutes) \in 1..maxRouteParams

C22_Witness ==
    /\ op = "GetVehicles"
    /\ pc = "done"
    /\ Len(Split(routeParam)) > maxRouteParams
    /\ Len(reqRoutes) = maxRouteParams
    /\ Len(VehicleRequests) = 1

C22_WitnessRejected ==
    /\ op = "GetVehicleLocations"
    /\ C22_IDsOf(routeParam) = maxRouteParams + 1
    /\ result.err = TooManyRoutesError

C25_OneAtATime ==
    /\ Len(sent) <= Len(calls) + 1
    /\ Len(sent) = Len(calls) + 1 => pc \in {"awaitRoutes", "awaitStatsRoutes", "awaitVehicles"}
    /\ pc = "awaitVehicles" => Len(sent) = Len(calls) + 1

C25_IssuedAfterAccepted ==
    (InBatches /\ VehicleRequests' # VehicleRequests) =>
        /\ Len(VehicleRequests') = Len(VehicleRequests) + 1
        /\ Len(calls) = Len(sent)
        /\ \A k \in 1..Len(calls) : calls[k].kind = "decoded" /\ Succeeded(calls[k].ret)
        /\ Len(SelectSeq(calls, LAMBDA c : c.url = GetVehiclesURL)) = Len(VehicleRequests)
        /\ allVehicles = FetchedVehicles(calls)
        /\ calls' = calls

\* C25: the batches of one GetAllVehicles run are strictly sequential: at most
\* one upstream request is without its response at any time, and the request
\* of batch k+1 is issued only when every earlier request has been answered,
\* decoded and accepted, its vehicles appended to the result.
C25_BatchesStrictlySequential == []C25_OneAtATime /\ [][C25_IssuedAfterAccepted]_vars

C25_Witness ==
    /\ InBatches
    /\ pc = "awaitVehicles"
    /\ Len(VehicleRequests) = 3
    /\ Len(calls) = Len(sent) - 1
    /\ allVehicles # <<>>

\* The route fetch of GetAllVehicles succeeded with an empty list.
C28_NoRoutesPublished ==
    /\ InBatches
    /\ pc = "done"
    /\ calls # <<>>
    /\ calls[Len(calls)].url = GetRoutesURL
    /\ calls[Len(calls)].ret = Return(<<>>, NilError)

\* C28: GetAllVehicles never calls GetVehicles with an empty batch: every batch
\* has between 1 and 10 ids and the batch path never yields the 400 of the
\* argument check.  With no route published it sends no getvehicles request
\* and returns an empty list that is not nil, with a nil error.
C28_NoEmptyBatch ==
    /\ InBatches =>
           /\ pc \in {"sendVehicles", "awaitVehicles"} =>
                  /\ reqRoutes # <<>>
                  /\ Len(reqRoutes) <= BatchSize
                  /\ reqRoutes = BatchAt(routeIDs, i)
           /\ vehCall.ret # ReturnNil(NoRoutesError)
           /\ result.err # NoRoutesError
           /\ \A k \in 1..Len(VehicleRequests) : VehicleRequests[k].rt # <<>>
    /\ C28_NoRoutesPublished =>
           /\ VehicleRequests = <<>>
           /\ vehCall = FreshRequest.vehCall
           /\ routeIDs = <<>>
           /\ op = "GetAllVehicles" => result = Return(<<>>, NilError)
           /\ op = "GetRouteStats" => Succeeded(result) /\ ~result.isNil

C28_Witness ==
    /\ C28_NoRoutesPublished
    /\ op = "GetAllVehicles"
    /\ result = Return(<<>>, NilError)
    /\ ~result.isNil

\* The routes whose vehicles GetAllVehicles requests: the identifiers of its
\* own route fetch.
C26_RequestedRoutes == {routeIDs[k] : k \in 1..Len(routeIDs)}

\* C26: a GetRouteStats run that returns statistics has a record for exactly
\* the routes whose vehicles it requested from the upstream, also when the
\* upstream route list changes between its own route fetch and the route
\* fetch of GetAllVehicles.
C26_RecordsAreRequestedRoutes ==
    StatsReturned =>
        /\ StatsRouteNumbers = C26_RequestedRoutes
        /\ {result.val[k].RouteNumber : k \in 1..Len(result.val)} = C26_RequestedRoutes

\* The route list changed between the two route fetches of one run.
C26_ListChangedBetweenFetches ==
    /\ StatsReturned
    /\ upstreamChanges > 0
    /\ RouteIDsOf(statsRoutes) # routeIDs

\* C27: the less function of the sort is transitive on route numbers: if a
\* sorts before b and b before c then a sorts before c, also when integers
\* and other identifiers are mixed.
C27_LessIsTransitive ==
    lessOut.set => ((lessOut.ab /\ lessOut.bc) => lessOut.ac)

\* The less function never puts a before b and b before a.
C27_LessIsAsymmetric ==
    lessOut.set => ~(lessOut.ab /\ lessOut.ba)

C27_MixedTriple ==
    /\ lessIn = << <<"9">>, <<"1", "0">>, <<"1", "A">> >>
    /\ lessOut.set
    /\ lessOut.ab
    /\ lessOut.bc
    /\ ~lessOut.ac

\* What request r returns, as a function of what its own upstream calls
\* returned.
C21_ResultFromOwnCalls(r) ==
    LET failed == SelectSeq(r.calls, LAMBDA c : Failed(c.ret))
        batches == r.op \in {"GetAllVehicles", "GetRouteStats"}
    IN  /\ r.op \in {"GetRoutes", "GetVehicles"} /\ r.calls # <<>> =>
               r.result = r.calls[Len(r.calls)].ret
        /\ batches /\ failed # <<>> => r.result = ReturnNil(failed[1].ret.err)
        /\ r.op = "GetAllVehicles" /\ failed = <<>> =>
               r.result = Return(FetchedVehicles(r.calls), NilError)
        /\ r.op = "GetRouteStats" /\ failed = <<>> =>
               /\ Succeeded(r.result)
               /\ r.result.val \in RouteStatsResults(r.statsRoutes, FetchedVehicles(r.calls))

\* Request r is where its own calls put it, whatever the other request did.
C21_OwnStateOnly(r) ==
    /\ r.vehCall.resp.kind # "none" => r.vehCall.ret = GetVehiclesBody(r.vehCall.resp).ret
    /\ r.routesCall.resp.kind # "none" =>
           r.routesCall.ret = GetRoutesBody(r.routesCall.resp).ret
    /\ (r.op \in {"GetAllVehicles", "GetRouteStats"} /\ r.pc \in {"sendVehicles", "awaitVehicles"}) =>
           /\ r.allVehicles = FetchedVehicles(r.calls)
           /\ r.reqRoutes = BatchAt(r.routeIDs, r.i)
    /\ r.pc = "done" => C21_ResultFromOwnCalls(r)

C23_NeverBothOn == ~(displayToggles.allRoutes /\ displayToggles.favoriteRoutes)

\* A click never turns both toggles on, and a click that turns one of them on
\* leaves the other off.
C23_ClicksKeepExclusive ==
    [][~(displayToggles.allRoutes /\ displayToggles.favoriteRoutes) =>
           ~(displayToggles'.allRoutes /\ displayToggles'.favoriteRoutes)]_vars

\* With both toggles on both buttons are disabled, and no click ends it.
C23_BothOnStays ==
    [][(displayToggles.allRoutes /\ displayToggles.favoriteRoutes) =>
           (displayToggles'.allRoutes /\ displayToggles'.favoriteRoutes)]_vars

\* The selected routes, as a set.
C24_Selected(list) == {list[k] : k \in 1..Len(list)}

\* What a click on routeId makes of the current selection.
C24_ClickToggles(routeId) ==
    LET before == C24_Selected(activeRouteIds)
        next == toggleActiveRoute(activeRouteIds, routeId)
    IN  /\ Len(next) = Cardinality(C24_Selected(next))
        /\ routeId \notin before =>
               /\ C24_Selected(next) = before \cup {routeId}
               /\ Len(SelectSeq(next, LAMBDA id : id = routeId)) = 1
               /\ toggleActiveRoute(next, routeId) = activeRouteIds
        /\ routeId \in before => C24_Selected(next) = before \ {routeId}

C24_CountIsDistinctIds ==
    /\ Len(activeRouteIds) = Cardinality(C24_Selected(activeRouteIds))
    /\ \A routeId \in PageRouteIds : C24_ClickToggles(routeId)

C24_ClickChangesOneRoute ==
    activeRouteIds' # activeRouteIds =>
        \/ activeRouteIds' = <<>>
        \/ \E routeId \in PageRouteIds :
               /\ activeRouteIds' = toggleActiveRoute(activeRouteIds, routeId)
               /\ (routeId \in C24_Selected(activeRouteIds'))
                      # (routeId \in C24_Selected(activeRouteIds))
               /\ \A other \in PageRouteIds \ {routeId} :
                      (other \in C24_Selected(activeRouteIds'))
                          = (other \in C24_Selected(activeRouteIds))

C30_InFlight == loads

\* C30: whenever no load of the route shapes is in flight the loading flag
\* is off, also after a load was aborted and no other load followed it.
C30_FlagOnlyWhileLoading == C30_InFlight = {} => ~isLoadingRouteShapes

\* The flag is on while a load that is not aborted is in flight.
C30_FlagOnWhileLoading ==
    (\E load \in loads : ~load.aborted) => isLoadingRouteShapes

\* A load that was aborted or superseded never writes busRoutesData.
C30_AbortedNeverWrites ==
    [][busRoutesData' # busRoutesData =>
           \E load \in loads :
               /\ ~load.aborted
               /\ load.requestId = routeShapesRequestId
               /\ load \notin loads']_vars

\* An aborted load has ended, no load followed it, and the flag is on.
C30_StuckAfterAbort ==
    /\ loads = {}
    /\ isLoadingRouteShapes
    /\ busRoutesData = "null"
    /\ ~displayToggles.allRoutes
    /\ ~displayToggles.favoriteRoutes
    /\ activeRouteIds = <<>>

====
